---- MODULE Spec2Model ----
(***************************************************************************)
(* Model of the concurrent batch-conversion orchestrator of onedusk/sb:    *)
(*   - executor.Pool (NewPool, Start, Submit, Stop, Cancel, worker)        *)
(*   - MP4Converter.ConvertBatch (submitting goroutine, job closure,       *)
(*     drain loop, statistics)                                             *)
(* Channels of capacity 0 are modelled as rendezvous: a send and the       *)
(* matching receive are one joint step of the two goroutines.              *)
(***************************************************************************)
EXTENDS Integers, FiniteSets, Sequences, TLC

\* ---------------------------------------------------------------- bounds
MaxInputs == 3          \* largest len(inputs) explored
MaxWorkers == 1         \* largest opts.Workers explored
NumCPU == 2             \* runtime.NumCPU(), used when opts.Workers <= 0
MaxFiles == 2           \* largest len(inputs) explored with Convert in detail
MaxCancels == 2         \* largest number of calls of Pool.Cancel explored
MaxDepth == 2           \* most directories in an input path
MaxName == 3            \* most pieces of text in a file name
MaxRegName == 2         \* most characters in a converter's name
MaxCalls == 3           \* most calls made on the registry

MaxPool == IF MaxWorkers > NumCPU THEN MaxWorkers ELSE NumCPU
WorkerIds == 1..(MaxPool + 1)      \* identities available to goroutines
JobIds == 1..MaxInputs             \* job j converts inputs[j]

VARIABLES
    nInputs,        \* len(inputs)
    optWorkers,     \* opts.Workers
    mainPc,         \* position of the goroutine that called ConvertBatch
    subPc,          \* position of the submitting goroutine (processor.go:206)
    subIdx,         \* index of the input the submitting goroutine hands over next
    workers,        \* Pool.workers
    jobsClosed,     \* close(p.jobs) has happened
    resultsClosed,  \* close(p.results) has happened
    wg,             \* Pool.wg counter
    cancelled,      \* p.ctx is done
    wpc,            \* position of each worker goroutine
    wjob,           \* job held by each worker (0: none)
    wres,           \* Result returned by c.Convert in the job closure
    wlen,           \* len(results) read by the closure's append
    wval,           \* value the worker is about to send on p.results
    results,        \* backing array of the results slice
    resultsLen,     \* len(results)
    nReceived,      \* values received by the drain loop
    nErrors,        \* len(errors) in ConvertBatch
    ret,            \* what ConvertBatch returned
    crashed,        \* the process died of an unrecovered panic
    jstat,          \* history: how far each job got
    emitted,        \* history: values sent on p.results on account of each job
    sentVal,        \* history: the value sent for each job
    jobErr,         \* history: the error the job's function returned
    deqCancelled,   \* history: jobs dequeued when the pool was already cancelled
    observed,       \* history: workers that took the <-p.ctx.Done() branch
    jkind,          \* history: the class of Result c.Convert returned for each job
    advanced,       \* progress.Increment() calls made on account of each job
    finCalls,       \* progress.Finish() calls
    optSkipExisting, \* opts.SkipExisting
    optDryRun,      \* opts.DryRun
    ffmpeg,         \* c.ffmpeg, the converter's lazily created encoder handle
    wconv,          \* what c.Convert met and did for the file a worker holds
    jinvalid,       \* history: the jobs whose file failed c.Validate
    fsTouched,      \* history: MkdirAll or the encoder ran (the file system was written)
    encoderRan,     \* history: the external encoder was invoked
    nCancel,        \* history: calls of Pool.Cancel made so far
    atCancel,       \* history: jobs whose function was running at a call of Cancel
    userCancel,     \* how the user has asked for the batch to be cancelled, if at all
    cmdPc,          \* position of the mp4 command, "none" when ConvertBatch is called directly
    cmdErr,         \* the error runMP4Convert returned ("none" while it runs)
    flagDryRun,     \* -n / --dry-run was given on the command line
    cfgDryRun,      \* viper's value for the key "dry_run" (config file or SB_DRY_RUN)
    libPc,          \* position of a direct call of a library function, "none" if none
    path,           \* determineOutputPath: its arguments and what it returned
    converters,     \* Registry.converters: the map from name to converter
    firstReg,       \* history: per name, the converter first passed to Register
    regOut,         \* the last call on the registry and what it returned
    nCalls,         \* history: number of calls made on the registry
    ff              \* buildArgs: its arguments and the argument list returned

vars == <<nInputs, optWorkers, mainPc, subPc, subIdx, workers, jobsClosed,
          resultsClosed, wg, cancelled, wpc, wjob, wres, wlen, wval, results,
          resultsLen, nReceived, nErrors, ret, crashed, jstat, emitted,
          sentVal, jobErr, deqCancelled, observed, jkind, advanced, finCalls,
          optSkipExisting, optDryRun, ffmpeg, wconv, jinvalid, fsTouched,
          encoderRan, nCancel, atCancel, userCancel, cmdPc, cmdErr,
          flagDryRun, cfgDryRun, libPc, path, converters, firstReg, regOut,
          nCalls, ff>>

cmdVars == <<cmdPc, cmdErr, flagDryRun, cfgDryRun>>
regVars == <<converters, firstReg, regOut, nCalls>>
libVars == <<libPc, path, regVars, ff>>
progVars == <<advanced, finCalls>>
fileVars == <<optSkipExisting, optDryRun, ffmpeg, fsTouched, encoderRan, jinvalid>>
poolVars == <<workers, jobsClosed, resultsClosed, wg>>
workerVars == <<wpc, wjob, wres, wlen, wval>>
sliceVars == <<results, resultsLen>>
drainVars == <<nReceived, nErrors>>
histVars == <<jstat, emitted, sentVal, jobErr, deqCancelled, observed>>
inputVars == <<nInputs, optWorkers>>

\* ------------------------------------------------------------ data model
NoResult == [Input |-> 0, Success |-> FALSE, Skipped |-> FALSE, Err |-> FALSE,
             SkipReason |-> ""]

\* MkResult with a fault: the skip return comes after result.Success = true
MkResult_SkipKeepsSuccess(j, kind) ==
    [Input |-> j,
     Success |-> (kind \in {"success", "skipped"}),
     Skipped |-> (kind = "skipped"),
     Err |-> (kind = "failed"),
     SkipReason |-> IF kind = "skipped" THEN "file already exists" ELSE ""]

\* converter.Result as ConvertBatch reads it: Input, Success, Skipped, Error,
\* SkipReason
MkResult(j, kind) ==
    [Input |-> j,
     Success |-> (kind = "success"),
     Skipped |-> (kind = "skipped"),
     Err |-> (kind = "failed"),
     SkipReason |-> IF kind = "skipped" THEN "file already exists" ELSE ""]

\* the three ways c.Convert returns: (result, nil) with Success, (result, nil)
\* with Skipped, (result, err)
ResultKinds == {"success", "skipped", "failed"}

NoRet == [done |-> FALSE, len |-> 0, err |-> "nil", errCount |-> 0,
          success |-> 0, failed |-> 0, skipped |-> 0]

\* NewPool: workers <= 0 is replaced by runtime.NumCPU()
NewPool(n) == IF n <= 0 THEN NumCPU ELSE n

\* what Convert met and did, before it has looked at anything
NoConv == [invalid |-> FALSE, lookupFailed |-> FALSE, outExists |-> FALSE,
           mkdir |-> FALSE, encoder |-> FALSE]

\* ------------------------------------------------------------------ Init
\* the state at the call of ConvertBatch, whatever the options and the files
InitBatch ==
    /\ nInputs \in 0..MaxInputs
    /\ optWorkers \in 0..MaxWorkers
    /\ mainPc = "entry"
    /\ subPc = "none"
    /\ subIdx = 1
    /\ workers = 0
    /\ jobsClosed = FALSE
    /\ resultsClosed = FALSE
    /\ wg = 0
    /\ cancelled = FALSE
    /\ wpc = [w \in WorkerIds |-> "none"]
    /\ wjob = [w \in WorkerIds |-> 0]
    /\ wres = [w \in WorkerIds |-> NoResult]
    /\ wlen = [w \in WorkerIds |-> 0]
    /\ wval = [w \in WorkerIds |-> "nil"]
    /\ results = [i \in JobIds |-> NoResult]
    /\ resultsLen = 0
    /\ nReceived = 0
    /\ nErrors = 0
    /\ ret = NoRet
    /\ crashed = FALSE
    /\ jstat = [j \in JobIds |-> "new"]
    /\ emitted = [j \in JobIds |-> 0]
    /\ sentVal = [j \in JobIds |-> "none"]
    /\ jobErr = [j \in JobIds |-> "none"]
    /\ deqCancelled = {}
    /\ observed = {}
    /\ jkind = [j \in JobIds |-> "none"]
    /\ advanced = [j \in JobIds |-> 0]
    /\ finCalls = 0
    /\ wconv = [w \in WorkerIds |-> NoConv]
    /\ jinvalid = {}
    /\ fsTouched = FALSE
    /\ encoderRan = FALSE
    /\ nCancel = 0
    /\ atCancel = {}
    /\ userCancel = "none"

\* a path: the directories that lead to a file, and the file's name as a
\* sequence of pieces of text, "." being a dot
NoPath == [dir |-> <<>>, file |-> <<>>]

\* no call of determineOutputPath is looked at
NoPathCall == [input |-> NoPath, otherDir |-> <<>>, outputDir |-> <<>>,
               flat |-> FALSE, out |-> NoPath, out2 |-> NoPath]

\* the characters of converter names, in ascending byte order, the names,
\* and the converters: an implementation and what its Name() returns
Alphabet == <<"a", "b">>
RegNames == UNION {[1..k -> {Alphabet[i] : i \in 1..Len(Alphabet)}] : k \in 0..MaxRegName}
Impls == {"c1", "c2"}
Converters == [impl : Impls, name : RegNames]

\* registry = &Registry{converters: make(map[string]Converter)}, no call yet
NoRegOut == [op |-> "none", name |-> <<>>, conv |-> "nil", err |-> "nil",
             names |-> <<>>]

NoRegistry ==
    /\ converters = [n \in {} |-> "nil"]
    /\ firstReg = [n \in RegNames |-> "none"]
    /\ regOut = NoRegOut
    /\ nCalls = 0

\* the options of buildArgs explored
FFmpegOptions ==
    [VideoCodec : {"", "h264", "h265", "hevc", "vp9", "h264_videotoolbox"},
     CRF : {0, 23},
     Preset : {"", "fast"},
     Bitrate : {"", "2M"},
     AudioCodec : {"", "copy"},
     AudioBitrate : {"", "128k"},
     HWAccel : {"", "videotoolbox", "nvenc"},
     HWAccelDevice : {"", "0"},
     ExtraArgs : {<<>>, <<"-movflags", "+faststart">>}]

\* no call of buildArgs is looked at
NoArgsCall ==
    [input |-> "", output |-> "", args |-> <<>>,
     opts |-> [VideoCodec |-> "", CRF |-> 0, Preset |-> "", Bitrate |-> "",
               AudioCodec |-> "", AudioBitrate |-> "", HWAccel |-> "",
               HWAccelDevice |-> "", ExtraArgs |-> <<>>]]

\* no library function is called on its own
NoLib ==
    /\ libPc = "none"
    /\ path = NoPathCall
    /\ NoRegistry
    /\ ff = NoArgsCall

\* ConvertBatch is called directly, not by the mp4 command
NoCmd ==
    /\ cmdPc = "none"
    /\ cmdErr = "none"
    /\ flagDryRun = FALSE
    /\ cfgDryRun = FALSE

\* a plain conversion run: no skip-existing, no dry run, encoder handle present
Init ==
    /\ InitBatch
    /\ NoCmd
    /\ NoLib
    /\ optSkipExisting = FALSE
    /\ optDryRun = FALSE
    /\ ffmpeg = "set"


\* ============================================================ ConvertBatch
\* ConvertBatchEmpty with a fault: the length check is missing, so the pool is
\* built and started for an empty list
ConvertBatchEmpty_NoCheck ==
    /\ ~crashed
    /\ mainPc = "entry"
    /\ nInputs = 0
    /\ workers' = NewPool(optWorkers)
    /\ wpc' = [w \in WorkerIds |-> IF w <= workers' THEN "idle" ELSE "none"]
    /\ wg' = workers'
    /\ subPc' = "stopClose"
    /\ mainPc' = "drain"
    /\ UNCHANGED <<inputVars, libVars, cmdVars, nCancel, atCancel, userCancel, progVars, fileVars, wconv, jkind, subIdx, jobsClosed, resultsClosed, cancelled,
                   wjob, wres, wlen, wval, sliceVars, drainVars, ret, crashed,
                   histVars>>

\* ConvertBatch, len(inputs) == 0: error return, no pool is created
ConvertBatchEmpty ==
    /\ ~crashed
    /\ mainPc = "entry"
    /\ nInputs = 0
    /\ mainPc' = "returned"
    /\ ret' = [NoRet EXCEPT !.done = TRUE, !.err = "no input files provided"]
    /\ UNCHANGED <<inputVars, libVars, cmdVars, nCancel, atCancel, userCancel, progVars, fileVars, wconv, jkind, subPc, subIdx, poolVars, cancelled, workerVars,
                   sliceVars, drainVars, crashed, histVars>>

\* Start with a fault: the spawning loop runs once too often
Start_OneExtra(n) ==
    /\ wpc' = [w \in WorkerIds |-> IF w <= n + 1 THEN "idle" ELSE "none"]
    /\ wg' = n + 1

\* Pool.Start: n times wg.Add(1) and go p.worker()
Start(n) ==
    /\ wpc' = [w \in WorkerIds |-> IF w <= n THEN "idle" ELSE "none"]
    /\ wg' = n

\* ConvertBatch up to the drain loop: NewPool, pool.Start(), go func(){...}()
ConvertBatchStart ==
    /\ ~crashed
    /\ mainPc = "entry"
    /\ nInputs > 0
    /\ workers' = NewPool(optWorkers)
    /\ Start(workers')
    /\ subPc' = "submit"
    /\ mainPc' = "drain"
    /\ UNCHANGED <<inputVars, libVars, cmdVars, nCancel, atCancel, userCancel, progVars, fileVars, wconv, jkind, subIdx, jobsClosed, resultsClosed, cancelled,
                   wjob, wres, wlen, wval, sliceVars, drainVars, ret, crashed,
                   histVars>>

\* ================================================================== Pool
\* Handoff with a fault: the submitting loop ends one input early, so
\* pool.Stop() is called while an input is still to be submitted
Handoff_StopEarly(w) ==
    /\ ~crashed
    /\ subPc = "submit"
    /\ wpc[w] = "idle"
    /\ ~jobsClosed
    /\ wjob' = [wjob EXCEPT ![w] = subIdx]
    /\ wpc' = [wpc EXCEPT ![w] = "select"]
    /\ subIdx' = subIdx + 1
    /\ subPc' = IF subIdx >= nInputs - 1 THEN "stopClose" ELSE "submit"
    /\ jstat' = [jstat EXCEPT ![subIdx] = "dequeued"]
    /\ deqCancelled' = IF cancelled THEN deqCancelled \cup {subIdx}
                       ELSE deqCancelled
    /\ UNCHANGED <<inputVars, libVars, cmdVars, nCancel, atCancel, userCancel, progVars, fileVars, wconv, jkind, mainPc, poolVars, cancelled, wres, wlen, wval,
                   sliceVars, drainVars, ret, crashed, emitted, sentVal,
                   jobErr, observed>>

\* Handoff with a fault: the intake delivers the previous job once more
Handoff_Redeliver(w) ==
    /\ ~crashed
    /\ subPc = "submit"
    /\ wpc[w] = "idle"
    /\ ~jobsClosed
    /\ wjob' = [wjob EXCEPT ![w] = IF subIdx > 1 THEN subIdx - 1 ELSE subIdx]
    /\ wpc' = [wpc EXCEPT ![w] = "select"]
    /\ subIdx' = subIdx + 1
    /\ subPc' = IF subIdx = nInputs THEN "stopClose" ELSE "submit"
    /\ jstat' = [jstat EXCEPT ![wjob'[w]] = "dequeued"]
    /\ deqCancelled' = IF cancelled THEN deqCancelled \cup {subIdx}
                       ELSE deqCancelled
    /\ UNCHANGED <<inputVars, libVars, cmdVars, nCancel, atCancel, userCancel, progVars, fileVars, wconv, jkind, mainPc, poolVars, cancelled, wres, wlen, wval,
                   sliceVars, drainVars, ret, crashed, emitted, sentVal,
                   jobErr, observed>>

\* Handoff with a fault: the intake has a buffer, Submit returns with the
\* job left in it and no worker has received it
Handoff_Buffered(w) ==
    /\ ~crashed
    /\ subPc = "submit"
    /\ wpc[w] = "idle"
    /\ ~jobsClosed
    /\ subIdx' = subIdx + 1
    /\ subPc' = IF subIdx = nInputs THEN "stopClose" ELSE "submit"
    /\ UNCHANGED <<inputVars, libVars, cmdVars, nCancel, atCancel, userCancel, progVars, fileVars, wconv, jkind, mainPc, poolVars, cancelled, workerVars,
                   sliceVars, drainVars, ret, crashed, histVars>>

\* p.jobs <- job in Submit meets `for job := range p.jobs` in worker w.
\* Submit returns and the submitting loop moves to the next input, or to
\* pool.Stop() after the last one.
Handoff(w) ==
    /\ ~crashed
    /\ subPc = "submit"
    /\ wpc[w] = "idle"
    /\ ~jobsClosed
    /\ wjob' = [wjob EXCEPT ![w] = subIdx]
    /\ wpc' = [wpc EXCEPT ![w] = "select"]
    /\ subIdx' = subIdx + 1
    /\ subPc' = IF subIdx = nInputs THEN "stopClose" ELSE "submit"
    /\ jstat' = [jstat EXCEPT ![subIdx] = "dequeued"]
    /\ deqCancelled' = IF cancelled THEN deqCancelled \cup {subIdx}
                       ELSE deqCancelled
    /\ UNCHANGED <<inputVars, libVars, cmdVars, nCancel, atCancel, userCancel, progVars, fileVars, wconv, jkind, mainPc, poolVars, cancelled, wres, wlen, wval,
                   sliceVars, drainVars, ret, crashed, emitted, sentVal,
                   jobErr, observed>>

\* WorkerExit with a fault: the deferred p.wg.Done() is missing
WorkerExit_NoDone(w) ==
    /\ ~crashed
    /\ wpc[w] = "idle"
    /\ jobsClosed
    /\ wpc' = [wpc EXCEPT ![w] = "exited"]
    /\ UNCHANGED <<inputVars, libVars, cmdVars, nCancel, atCancel, userCancel, progVars, fileVars, wconv, jkind, mainPc, subPc, subIdx, poolVars, cancelled,
                   wjob, wres, wlen, wval, sliceVars, drainVars, ret, crashed,
                   histVars>>

\* the range over p.jobs ends on the closed channel; deferred p.wg.Done()
WorkerExit(w) ==
    /\ ~crashed
    /\ wpc[w] = "idle"
    /\ jobsClosed
    /\ wpc' = [wpc EXCEPT ![w] = "exited"]
    /\ wg' = wg - 1
    /\ UNCHANGED <<inputVars, libVars, cmdVars, nCancel, atCancel, userCancel, progVars, fileVars, wconv, jkind, mainPc, subPc, subIdx, workers, jobsClosed,
                   resultsClosed, cancelled, wjob, wres, wlen, wval, sliceVars,
                   drainVars, ret, crashed, histVars>>

\* what the select does when <-p.ctx.Done() is ready
SelectDone(w) ==
    /\ wval' = [wval EXCEPT ![w] = "ctxErr"]
    /\ wpc' = [wpc EXCEPT ![w] = "sendCancel"]
    /\ jstat' = [jstat EXCEPT ![wjob[w]] = "short"]
    /\ observed' = observed \cup {w}
    /\ UNCHANGED <<wg>>

\* what the select does in its default branch: job(p.ctx) begins
SelectDefault(w) ==
    /\ wpc' = [wpc EXCEPT ![w] = "convert"]
    /\ jstat' = [jstat EXCEPT ![wjob[w]] = "running"]
    /\ UNCHANGED <<wval, observed, wg>>

\* WorkerSelect with a fault: the Done branch returns without sending
WorkerSelect_NoEmit(w) ==
    /\ ~crashed
    /\ wpc[w] = "select"
    /\ IF cancelled
       THEN /\ wpc' = [wpc EXCEPT ![w] = "exited"]
            /\ wg' = wg - 1
            /\ jstat' = [jstat EXCEPT ![wjob[w]] = "short"]
            /\ observed' = observed \cup {w}
            /\ UNCHANGED wval
       ELSE SelectDefault(w)
    /\ UNCHANGED <<inputVars, libVars, cmdVars, nCancel, atCancel, userCancel, progVars, fileVars, wconv, jkind, mainPc, subPc, subIdx, workers, jobsClosed,
                   resultsClosed, cancelled, wjob, wres, wlen, sliceVars,
                   drainVars, ret, crashed, emitted, sentVal, jobErr,
                   deqCancelled>>

\* WorkerSelect with a fault: the context is not consulted reliably, either
\* branch may be taken when it is done
WorkerSelect_Racy(w) ==
    /\ ~crashed
    /\ wpc[w] = "select"
    /\ \/ cancelled /\ SelectDone(w)
       \/ SelectDefault(w)
    /\ UNCHANGED <<inputVars, libVars, cmdVars, nCancel, atCancel, userCancel, progVars, fileVars, wconv, jkind, mainPc, subPc, subIdx, workers, jobsClosed,
                   resultsClosed, cancelled, wjob, wres, wlen, sliceVars,
                   drainVars, ret, crashed, emitted, sentVal, jobErr,
                   deqCancelled>>

\* select { case <-p.ctx.Done(): ... default: err := job(p.ctx) ... }
\* The default branch is taken only when the context is not done. Choosing it
\* and calling the job are one step: nothing shared is read or written between
\* the two, so the choice is the instant at which the job starts.
WorkerSelect(w) ==
    /\ ~crashed
    /\ wpc[w] = "select"
    /\ IF cancelled THEN SelectDone(w) ELSE SelectDefault(w)
    /\ UNCHANGED <<inputVars, libVars, cmdVars, nCancel, atCancel, userCancel, progVars, fileVars, wconv, jkind, mainPc, subPc, subIdx, workers, jobsClosed,
                   resultsClosed, cancelled, wjob, wres, wlen, sliceVars,
                   drainVars, ret, crashed, emitted, sentVal, jobErr,
                   deqCancelled>>

\* The job closure: c.Convert returns (result, err); the closure then reads
\* the results slice header for append. The time spent in "convert" is the
\* time the job body runs (it ends when the encoder lets it).
JobConvert(w) ==
    /\ ~crashed
    /\ wpc[w] = "convert"
    /\ \E kind \in ResultKinds :
          /\ wres' = [wres EXCEPT ![w] = MkResult(wjob[w], kind)]
          /\ jkind' = [jkind EXCEPT ![wjob[w]] = kind]
    /\ wlen' = [wlen EXCEPT ![w] = resultsLen]
    /\ wpc' = [wpc EXCEPT ![w] = "append"]
    /\ UNCHANGED <<inputVars, libVars, cmdVars, nCancel, atCancel, userCancel, progVars, fileVars, wconv, mainPc, subPc, subIdx,
                   poolVars, cancelled, wjob, wval, sliceVars, drainVars, ret,
                   crashed, histVars>>

\* The closure's append stores the new length and the element at the length
\* it read (cap(results) = len(inputs), so the array is never moved and the
\* pointer and capacity words never change). The read in JobConvert and these
\* stores are unsynchronised: another worker's append may fall between them,
\* and this step then overwrites that worker's element and length.
\* The closure then calls progress.Increment().
JobAppend(w) ==
    /\ ~crashed
    /\ wpc[w] = "append"
    /\ results' = [results EXCEPT ![wlen[w] + 1] = wres[w]]
    /\ resultsLen' = wlen[w] + 1
    /\ wpc' = [wpc EXCEPT ![w] = "increment"]
    /\ UNCHANGED <<inputVars, libVars, cmdVars, nCancel, atCancel, userCancel, progVars, fileVars, wconv, jkind, mainPc, subPc,
                   subIdx, poolVars, cancelled, wjob, wres, wlen, wval,
                   drainVars, ret, crashed, histVars>>

\* JobIncrement with a fault: the closure does not advance the progress bar
JobIncrement_NoAdvance(w) ==
    /\ ~crashed
    /\ wpc[w] = "increment"
    /\ wval' = [wval EXCEPT ![w] = IF wres[w].Err THEN "err" ELSE "nil"]
    /\ jobErr' = [jobErr EXCEPT ![wjob[w]] = IF wres[w].Err THEN "err" ELSE "nil"]
    /\ jstat' = [jstat EXCEPT ![wjob[w]] = "returned"]
    /\ wpc' = [wpc EXCEPT ![w] = "send"]
    /\ UNCHANGED <<inputVars, libVars, cmdVars, nCancel, atCancel, userCancel, progVars, fileVars, wconv, jkind, mainPc, subPc,
                   subIdx, poolVars, cancelled, wjob, wres, wlen, sliceVars,
                   drainVars, ret, crashed, emitted, sentVal, deqCancelled,
                   observed>>

\* progress.Increment() is under way in worker w while it is at "increment";
\* this step is its return, the printing and the closure's `return err`
JobIncrement(w) ==
    /\ ~crashed
    /\ wpc[w] = "increment"
    /\ advanced' = [advanced EXCEPT ![wjob[w]] = @ + 1]
    /\ wval' = [wval EXCEPT ![w] = IF wres[w].Err THEN "err" ELSE "nil"]
    /\ jobErr' = [jobErr EXCEPT ![wjob[w]] = IF wres[w].Err THEN "err" ELSE "nil"]
    /\ jstat' = [jstat EXCEPT ![wjob[w]] = "returned"]
    /\ wpc' = [wpc EXCEPT ![w] = "send"]
    /\ UNCHANGED <<inputVars, libVars, cmdVars, nCancel, atCancel, userCancel, finCalls, fileVars, wconv, jkind, mainPc, subPc,
                   subIdx, poolVars, cancelled, wjob, wres, wlen, sliceVars,
                   drainVars, ret, crashed, emitted, sentVal, deqCancelled,
                   observed>>

\* AfterSend with a fault: the Done branch has no return, the worker goes
\* on to the next job
AfterSend_KeepGoing(w) ==
    /\ wpc' = [wpc EXCEPT ![w] = "idle"]
    /\ UNCHANGED wg

\* what worker w does once its send has been received
AfterSend(w) ==
    IF wpc[w] = "sendCancel"
    THEN /\ wpc' = [wpc EXCEPT ![w] = "exited"]      \* return; wg.Done()
         /\ wg' = wg - 1
    ELSE /\ wpc' = [wpc EXCEPT ![w] = "idle"]        \* next loop iteration
         /\ UNCHANGED wg

\* the loop iteration's locals (job, err and the closure's frame) go out of scope
Forget(w) ==
    /\ wjob' = [wjob EXCEPT ![w] = 0]
    /\ wres' = [wres EXCEPT ![w] = NoResult]
    /\ wlen' = [wlen EXCEPT ![w] = 0]
    /\ wval' = [wval EXCEPT ![w] = "nil"]
    /\ wconv' = [wconv EXCEPT ![w] = NoConv]

\* the drain loop's side of a receive
Receive(w) ==
    /\ nReceived' = nReceived + 1
    /\ nErrors' = IF wval[w] # "nil" THEN nErrors + 1 ELSE nErrors
    /\ emitted' = [emitted EXCEPT ![wjob[w]] = @ + 1]
    /\ sentVal' = [sentVal EXCEPT ![wjob[w]] = wval[w]]
    /\ jstat' = [jstat EXCEPT ![wjob[w]] = "reported"]

\* Send with a fault: a worker stops after reporting a failed job
Send_StopOnError(w) ==
    /\ ~crashed
    /\ wpc[w] \in {"send", "sendCancel"}
    /\ mainPc = "drain"
    /\ ~resultsClosed
    /\ Receive(w)
    /\ IF wval[w] # "nil"
       THEN /\ wpc' = [wpc EXCEPT ![w] = "exited"]
            /\ wg' = wg - 1
       ELSE AfterSend(w)
    /\ Forget(w)
    /\ UNCHANGED <<inputVars, libVars, cmdVars, nCancel, atCancel, userCancel, progVars, fileVars, jkind, mainPc, subPc, subIdx, workers, jobsClosed,
                   resultsClosed, cancelled, sliceVars, ret, crashed, jobErr,
                   deqCancelled, observed>>

\* Send with a fault: results has a buffer, the worker leaves its value there
\* and goes on before any consumer has received it
Send_Buffered(w) ==
    /\ ~crashed
    /\ wpc[w] \in {"send", "sendCancel"}
    /\ ~resultsClosed
    /\ AfterSend(w)
    /\ Forget(w)
    /\ UNCHANGED <<inputVars, libVars, cmdVars, nCancel, atCancel, userCancel, progVars, fileVars, jkind, mainPc, subPc, subIdx, workers, jobsClosed,
                   resultsClosed, cancelled, sliceVars, drainVars, ret, crashed,
                   histVars>>

\* p.results <- err (or p.results <- p.ctx.Err()) in worker w meets
\* `for err := range pool.Results()` in ConvertBatch
Send(w) ==
    /\ ~crashed
    /\ wpc[w] \in {"send", "sendCancel"}
    /\ mainPc = "drain"
    /\ ~resultsClosed
    /\ Receive(w)
    /\ AfterSend(w)
    /\ Forget(w)
    /\ UNCHANGED <<inputVars, libVars, cmdVars, nCancel, atCancel, userCancel, progVars, fileVars, jkind, mainPc, subPc, subIdx, workers, jobsClosed,
                   resultsClosed, cancelled, sliceVars, ret, crashed, jobErr,
                   deqCancelled, observed>>

\* StopCloseJobs with a fault: Stop closes results together with jobs, before
\* waiting for the workers
StopCloseJobs_Both ==
    /\ ~crashed
    /\ subPc = "stopClose"
    /\ jobsClosed' = TRUE
    /\ resultsClosed' = TRUE
    /\ subPc' = "stopWait"
    /\ UNCHANGED <<inputVars, libVars, cmdVars, nCancel, atCancel, userCancel, progVars, fileVars, wconv, jkind, mainPc, subIdx, workers, wg,
                   cancelled, workerVars, sliceVars, drainVars, ret, crashed,
                   histVars>>

\* Pool.Stop, first statement: close(p.jobs)
StopCloseJobs ==
    /\ ~crashed
    /\ subPc = "stopClose"
    /\ jobsClosed' = TRUE
    /\ subPc' = "stopWait"
    /\ UNCHANGED <<inputVars, libVars, cmdVars, nCancel, atCancel, userCancel, progVars, fileVars, wconv, jkind, mainPc, subIdx, workers, resultsClosed, wg,
                   cancelled, workerVars, sliceVars, drainVars, ret, crashed,
                   histVars>>

\* StopWait with a fault: Stop does not wait for the workers
StopWait_NoWait ==
    /\ ~crashed
    /\ subPc = "stopWait"
    /\ subPc' = "stopCloseResults"
    /\ UNCHANGED <<inputVars, libVars, cmdVars, nCancel, atCancel, userCancel, progVars, fileVars, wconv, jkind, mainPc, subIdx, poolVars, cancelled, workerVars,
                   sliceVars, drainVars, ret, crashed, histVars>>

\* StopWait with a fault: the wait returns while one worker is still counted
StopWait_OneLeft ==
    /\ ~crashed
    /\ subPc = "stopWait"
    /\ wg <= 1
    /\ subPc' = "stopCloseResults"
    /\ UNCHANGED <<inputVars, libVars, cmdVars, nCancel, atCancel, userCancel, progVars, fileVars, wconv, jkind, mainPc, subIdx, poolVars, cancelled, workerVars,
                   sliceVars, drainVars, ret, crashed, histVars>>

\* Pool.Stop, second statement: p.wg.Wait() returns
StopWait ==
    /\ ~crashed
    /\ subPc = "stopWait"
    /\ wg = 0
    /\ subPc' = "stopCloseResults"
    /\ UNCHANGED <<inputVars, libVars, cmdVars, nCancel, atCancel, userCancel, progVars, fileVars, wconv, jkind, mainPc, subIdx, poolVars, cancelled, workerVars,
                   sliceVars, drainVars, ret, crashed, histVars>>

\* Pool.Stop, third statement: close(p.results); the goroutine ends
StopCloseResults ==
    /\ ~crashed
    /\ subPc = "stopCloseResults"
    /\ resultsClosed' = TRUE
    /\ subPc' = "done"
    /\ UNCHANGED <<inputVars, libVars, cmdVars, nCancel, atCancel, userCancel, progVars, fileVars, wconv, jkind, mainPc, subIdx, workers, jobsClosed, wg,
                   cancelled, workerVars, sliceVars, drainVars, ret, crashed,
                   histVars>>

\* what Cancel leaves alone: everything but the context and the call count
cancelFrame == <<inputVars, libVars, cmdVars, userCancel, progVars, fileVars, wconv, jkind, mainPc, subPc,
                 subIdx, poolVars, workerVars, sliceVars, drainVars, ret,
                 histVars>>

\* Cancel with a fault: the signal is a channel that Cancel closes, so a
\* second call panics (close of closed channel)
Cancel_CloseTwice ==
    /\ ~crashed
    /\ workers >= 1
    /\ nCancel < MaxCancels
    /\ nCancel' = nCancel + 1
    /\ atCancel' = atCancel \cup {j \in JobIds : jstat[j] = "running"}
    /\ cancelled' = TRUE
    /\ crashed' = cancelled
    /\ UNCHANGED cancelFrame

\* Cancel with a fault: the jobs under way are cut short as well
Cancel_Kill ==
    /\ ~crashed
    /\ workers >= 1
    /\ nCancel < MaxCancels
    /\ nCancel' = nCancel + 1
    /\ atCancel' = atCancel \cup {j \in JobIds : jstat[j] = "running"}
    /\ cancelled' = TRUE
    /\ wpc' = [w \in WorkerIds |->
                  IF wpc[w] = "convert" THEN "sendCancel" ELSE wpc[w]]
    /\ wval' = [w \in WorkerIds |->
                  IF wpc[w] = "convert" THEN "ctxErr" ELSE wval[w]]
    /\ UNCHANGED <<inputVars, libVars, cmdVars, userCancel, progVars, fileVars, wconv, jkind, mainPc, subPc,
                   subIdx, poolVars, wjob, wres, wlen, sliceVars, drainVars,
                   ret, crashed, histVars>>

\* Pool.Cancel, called by whoever holds the pool, at any time from NewPool
\* on and any number of times: p.cancel() is the CancelFunc of
\* context.WithCancel, whose calls after the first do nothing
Cancel ==
    /\ ~crashed
    /\ workers >= 1
    /\ nCancel < MaxCancels
    /\ nCancel' = nCancel + 1
    /\ atCancel' = atCancel \cup {j \in JobIds : jstat[j] = "running"}
    /\ cancelled' = TRUE
    /\ UNCHANGED <<cancelFrame, crashed>>

\* a job's function panics: the worker has no recover, so the runtime ends
\* the process and every goroutine with it
JobPanic(w) ==
    /\ ~crashed
    /\ wpc[w] = "convert"
    /\ crashed' = TRUE
    /\ jstat' = [jstat EXCEPT ![wjob[w]] = "panicked"]
    /\ UNCHANGED <<inputVars, libVars, cmdVars, nCancel, atCancel, userCancel, progVars, fileVars, wconv, jkind, mainPc, subPc, subIdx, poolVars, cancelled,
                   workerVars, sliceVars, drainVars, ret, emitted, sentVal,
                   jobErr, deqCancelled, observed>>

\* ====================================================== ConvertBatch, end
\* the range over pool.Results() ends on the closed channel; progress.Finish()
DrainEnd ==
    /\ ~crashed
    /\ mainPc = "drain"
    /\ resultsClosed
    /\ finCalls' = finCalls + 1
    /\ mainPc' = "stats"
    /\ UNCHANGED <<inputVars, libVars, cmdVars, nCancel, atCancel, userCancel, advanced, fileVars, wconv, jkind, subPc, subIdx,
                   poolVars, cancelled, workerVars, sliceVars, drainVars, ret,
                   crashed, histVars>>

\* the statistics loop's three counters over results[0:len(results)]
CountSkipped == Cardinality({i \in 1..resultsLen : results[i].Skipped})

CountSuccess ==
    Cardinality({i \in 1..resultsLen : ~results[i].Skipped /\ results[i].Success})

CountFailed ==
    Cardinality({i \in 1..resultsLen : ~results[i].Skipped /\ ~results[i].Success})

\* the statistics loop and the two return statements
Stats ==
    /\ ~crashed
    /\ mainPc = "stats"
    /\ ret' = [done |-> TRUE,
               len |-> resultsLen,
               err |-> IF nErrors > 0 THEN "conversion(s) failed" ELSE "nil",
               errCount |-> nErrors,
               success |-> CountSuccess,
               failed |-> CountFailed,
               skipped |-> CountSkipped]
    /\ mainPc' = "returned"
    /\ UNCHANGED <<inputVars, libVars, cmdVars, nCancel, atCancel, userCancel, progVars, fileVars, wconv, jkind, subPc, subIdx, poolVars, cancelled, workerVars,
                   sliceVars, drainVars, crashed, histVars>>

\* ================================================= MP4Converter.Convert
\* the extensions SupportedInputs returns
SupportedInputs ==
    {".mov", ".avi", ".mkv", ".flv", ".wmv", ".m4v", ".mpeg", ".mpg", ".webm"}

\* strings.ToLower on the extensions explored
ToLower(ext) == IF ext = ".MOV" THEN ".mov" ELSE ext

\* the conditions an input file can be in: os.Stat(input) succeeds or not, it
\* is a directory or not, its extension, and whether its output path exists
Files == [exists : BOOLEAN, isDir : BOOLEAN, ext : {".mov", ".MOV", ".txt"},
          outExists : BOOLEAN]

\* MP4Converter.Validate: the error it returns, "nil" for none
Validate(f) ==
    IF ~f.exists THEN "cannot access file"
    ELSE IF f.isDir THEN "input is a directory, not a file"
    ELSE IF ToLower(f.ext) \notin SupportedInputs THEN "unsupported file format"
    ELSE "nil"

\* what the statements of Convert leave alone
convFrame == <<inputVars, libVars, cmdVars, nCancel, atCancel, userCancel, progVars, optSkipExisting, optDryRun, mainPc, subPc,
               subIdx, poolVars, cancelled, wjob, wval, sliceVars, drainVars,
               ret, crashed, jstat, emitted, sentVal, jobErr, deqCancelled,
               observed>>

\* Convert returns a Result of class kind to the job closure, which reads
\* the results slice header for its append (as in JobConvert)
ConvReturn(w, kind, conv) ==
    /\ wres' = [wres EXCEPT ![w] = MkResult(wjob[w], kind)]
    /\ jkind' = [jkind EXCEPT ![wjob[w]] = kind]
    /\ wconv' = [wconv EXCEPT ![w] = conv]
    /\ jinvalid' = IF conv.invalid THEN jinvalid \cup {wjob[w]} ELSE jinvalid
    /\ wlen' = [wlen EXCEPT ![w] = resultsLen]
    /\ wpc' = [wpc EXCEPT ![w] = "append"]

\* Convert goes on to position pc
ConvGoOn(w, pc, conv) ==
    /\ wpc' = [wpc EXCEPT ![w] = pc]
    /\ wconv' = [wconv EXCEPT ![w] = conv]
    /\ jinvalid' = IF conv.invalid THEN jinvalid \cup {wjob[w]} ELSE jinvalid
    /\ UNCHANGED <<wres, jkind, wlen>>

\* ConvValidate with a fault: the validation error is not returned
ConvValidate_NoReturn(w) ==
    /\ ~crashed
    /\ wpc[w] = "convert"
    /\ \E f \in Files :
          ConvGoOn(w, IF ffmpeg = "nil" THEN "ffinit" ELSE "prepare",
                   [NoConv EXCEPT !.outExists = f.outExists,
                                  !.invalid = (Validate(f) # "nil")])
    /\ UNCHANGED <<convFrame, ffmpeg, fsTouched, encoderRan>>

\* c.Validate(input) and its early return; else the read of c.ffmpeg
ConvValidate(w) ==
    /\ ~crashed
    /\ wpc[w] = "convert"
    /\ \E f \in Files :
          LET conv == [NoConv EXCEPT !.outExists = f.outExists] IN
          IF Validate(f) # "nil"
          THEN ConvReturn(w, "failed", [conv EXCEPT !.invalid = TRUE])
          ELSE ConvGoOn(w, IF ffmpeg = "nil" THEN "ffinit" ELSE "prepare", conv)
    /\ UNCHANGED <<convFrame, ffmpeg, fsTouched, encoderRan>>

\* c.ffmpeg was nil: executor.NewFFmpeg() looks ffmpeg up in PATH; on success
\* the handle is stored in c.ffmpeg, on failure Convert returns the error
ConvInitFFmpeg(w) ==
    /\ ~crashed
    /\ wpc[w] = "ffinit"
    /\ \E found \in BOOLEAN :
          IF found
          THEN /\ ffmpeg' = "set"
               /\ ConvGoOn(w, "prepare", wconv[w])
          ELSE /\ ConvReturn(w, "failed", [wconv[w] EXCEPT !.lookupFailed = TRUE])
               /\ UNCHANGED ffmpeg
    /\ UNCHANGED <<convFrame, fsTouched, encoderRan>>

\* os.MkdirAll on the output directory, then c.ffmpeg.Convert starts the
\* external encoder
ConvStartEncoder(w) ==
    \E made \in BOOLEAN :
        /\ fsTouched' = TRUE
        /\ IF made
           THEN /\ encoderRan' = TRUE
                /\ ConvGoOn(w, "encode",
                            [wconv[w] EXCEPT !.mkdir = TRUE, !.encoder = TRUE])
           ELSE /\ ConvReturn(w, "failed", [wconv[w] EXCEPT !.mkdir = TRUE])
                /\ UNCHANGED encoderRan

\* ConvPrepare with a fault: the dry-run check comes before the skip-existing
\* check
ConvPrepare_DryRunFirst(w) ==
    /\ ~crashed
    /\ wpc[w] = "prepare"
    /\ IF optDryRun
       THEN ConvReturn(w, "success", wconv[w]) /\ UNCHANGED <<fsTouched, encoderRan>>
       ELSE IF optSkipExisting /\ wconv[w].outExists
       THEN ConvReturn(w, "skipped", wconv[w]) /\ UNCHANGED <<fsTouched, encoderRan>>
       ELSE ConvStartEncoder(w)
    /\ UNCHANGED <<convFrame, ffmpeg>>

\* determineOutputPath, the skip-existing check, the dry-run check, and
\* otherwise the start of the conversion
ConvPrepare(w) ==
    /\ ~crashed
    /\ wpc[w] = "prepare"
    /\ IF optSkipExisting /\ wconv[w].outExists
       THEN ConvReturn(w, "skipped", wconv[w]) /\ UNCHANGED <<fsTouched, encoderRan>>
       ELSE IF optDryRun
       THEN ConvReturn(w, "success", wconv[w]) /\ UNCHANGED <<fsTouched, encoderRan>>
       ELSE ConvStartEncoder(w)
    /\ UNCHANGED <<convFrame, ffmpeg>>

\* the external encoder ends: Convert returns success or "conversion failed"
ConvEncode(w) ==
    /\ ~crashed
    /\ wpc[w] = "encode"
    /\ \E ok \in BOOLEAN :
          ConvReturn(w, IF ok THEN "success" ELSE "failed", wconv[w])
    /\ UNCHANGED <<convFrame, ffmpeg, fsTouched, encoderRan>>

\* ================================================== the user cancels
\* During a batch the user cancels the context given in opts.Context, or
\* interrupts the process. ConvertBatch never reads opts.Context (the closure
\* replaces it by the pool's own context) and pool.Cancel has no caller, so
\* the first reaches nothing; no signal handler is installed, so an
\* interrupt ends the process at once, as the Go runtime does by default.
UserCancel ==
    /\ ~crashed
    /\ mainPc = "drain"
    /\ userCancel = "none"
    /\ \E how \in {"context", "interrupt"} :
          /\ userCancel' = how
          /\ crashed' = (how = "interrupt")
    /\ UNCHANGED <<inputVars, libVars, cmdVars, nCancel, atCancel, progVars, fileVars, wconv,
                   jkind, mainPc, subPc, subIdx, poolVars, cancelled,
                   workerVars, sliceVars, drainVars, ret, histVars>>

\* ============================================ the ADR's usage pattern
\* One thread: pool := NewPool(n); pool.Start(); then the Submit loop. The
\* thread's position in Submit and Stop is subPc; mainPc = "usage" says that
\* it has not reached the range over pool.Results() yet.
UsageStart ==
    /\ ~crashed
    /\ mainPc = "entry"
    /\ workers' = NewPool(optWorkers)
    /\ Start(workers')
    /\ subPc' = IF nInputs = 0 THEN "stopClose" ELSE "submit"
    /\ mainPc' = "usage"
    /\ UNCHANGED <<inputVars, libVars, cmdVars, nCancel, atCancel, userCancel, progVars, fileVars, wconv,
                   jkind, subIdx, jobsClosed, resultsClosed, cancelled, wjob,
                   wres, wlen, wval, sliceVars, drainVars, ret, crashed,
                   histVars>>

\* the job of the pattern, `return convert(ctx, input)`, returns nil or an
\* error
UsageJob(w) ==
    /\ ~crashed
    /\ wpc[w] = "convert"
    /\ \E e \in {"nil", "err"} :
          /\ wval' = [wval EXCEPT ![w] = e]
          /\ jobErr' = [jobErr EXCEPT ![wjob[w]] = e]
    /\ jstat' = [jstat EXCEPT ![wjob[w]] = "returned"]
    /\ wpc' = [wpc EXCEPT ![w] = "send"]
    /\ UNCHANGED <<inputVars, libVars, cmdVars, nCancel, atCancel, userCancel, progVars, fileVars, wconv,
                   jkind, mainPc, subPc, subIdx, poolVars, cancelled, wjob,
                   wres, wlen, sliceVars, drainVars, ret, crashed, emitted,
                   sentVal, deqCancelled, observed>>

\* `for err := range pool.Results()`, reached when pool.Stop() has returned:
\* an iteration receives the value a worker is sending, and the loop ends on
\* the closed channel; with neither a sender nor a close the thread blocks
UsageRange ==
    /\ ~crashed
    /\ mainPc = "usage"
    /\ subPc = "done"
    /\ IF resultsClosed
       THEN /\ mainPc' = "returned"
            /\ ret' = [NoRet EXCEPT !.done = TRUE, !.errCount = nErrors]
            /\ UNCHANGED <<wg, workerVars, wconv, drainVars, jstat, emitted,
                           sentVal>>
       ELSE /\ \E w \in WorkerIds :
                  /\ wpc[w] \in {"send", "sendCancel"}
                  /\ Receive(w)
                  /\ AfterSend(w)
                  /\ Forget(w)
            /\ UNCHANGED <<mainPc, ret>>
    /\ UNCHANGED <<inputVars, libVars, cmdVars, nCancel, atCancel, userCancel, progVars, fileVars, jkind,
                   subPc, subIdx, workers, jobsClosed, resultsClosed,
                   cancelled, sliceVars, crashed, jobErr, deqCancelled,
                   observed>>

\* ===================================================== the mp4 command
\* converter.Options.DryRun as runMP4Convert builds it:
\* cmd.Flags().Changed("dry-run") && viper.GetBool("dry_run"). The flag is
\* defined in root.go but never bound to a viper key, so viper's value comes
\* from the config file or the environment only.
BuildDryRun(flagGiven, viperValue) == flagGiven /\ viperValue

\* runMP4Convert up to the conversion: gatherInputs, the check for no inputs,
\* converter.Get, SetOptions, and the building of converter.Options
CmdSetup ==
    /\ cmdPc = "start"
    /\ \E gatherFails, optionsFail \in BOOLEAN :
          IF gatherFails
          THEN /\ cmdErr' = "error reading inputs"
               /\ cmdPc' = "exited"
               /\ UNCHANGED optDryRun
          ELSE IF nInputs = 0
          THEN /\ cmdErr' = "no input files found"
               /\ cmdPc' = "exited"
               /\ UNCHANGED optDryRun
          ELSE IF optionsFail
          THEN /\ cmdErr' = "invalid options"
               /\ cmdPc' = "exited"
               /\ UNCHANGED optDryRun
          ELSE /\ optDryRun' = BuildDryRun(flagDryRun, cfgDryRun)
               /\ cmdPc' = "convert"
               /\ UNCHANGED cmdErr
    /\ UNCHANGED <<inputVars, libVars, flagDryRun, cfgDryRun, nCancel, atCancel,
                   userCancel, progVars, optSkipExisting, ffmpeg, fsTouched,
                   encoderRan, jinvalid, wconv, jkind, mainPc, subPc, subIdx,
                   poolVars, cancelled, workerVars, sliceVars, drainVars, ret,
                   crashed, histVars>>

\* MP4Converter.Convert as a function of the file and of what the system
\* answers: the class of its Result and what it did on the way
ConvertOnce(f, found, made, ok) ==
    IF Validate(f) # "nil"
    THEN [kind |-> "failed", mkdir |-> FALSE, encoder |-> FALSE, handle |-> ffmpeg]
    ELSE IF ffmpeg = "nil" /\ ~found
    THEN [kind |-> "failed", mkdir |-> FALSE, encoder |-> FALSE, handle |-> "nil"]
    ELSE IF optSkipExisting /\ f.outExists
    THEN [kind |-> "skipped", mkdir |-> FALSE, encoder |-> FALSE, handle |-> "set"]
    ELSE IF optDryRun
    THEN [kind |-> "success", mkdir |-> FALSE, encoder |-> FALSE, handle |-> "set"]
    ELSE IF ~made
    THEN [kind |-> "failed", mkdir |-> TRUE, encoder |-> FALSE, handle |-> "set"]
    ELSE [kind |-> IF ok THEN "success" ELSE "failed",
          mkdir |-> TRUE, encoder |-> TRUE, handle |-> "set"]

\* runMP4Convert, len(inputs) == 1: mp4Conv.Convert(inputs[0], convOpts) on
\* the command's own goroutine, and the return of its error
CmdSingle ==
    /\ cmdPc = "convert"
    /\ nInputs = 1
    /\ \E f \in Files, found, made, ok \in BOOLEAN :
          LET out == ConvertOnce(f, found, made, ok) IN
          /\ jkind' = [jkind EXCEPT ![1] = out.kind]
          /\ jinvalid' = IF Validate(f) # "nil" THEN {1} ELSE {}
          /\ ffmpeg' = out.handle
          /\ fsTouched' = out.mkdir
          /\ encoderRan' = out.encoder
          /\ cmdErr' = IF out.kind = "failed" THEN "conversion failed" ELSE "nil"
    /\ cmdPc' = "exited"
    /\ UNCHANGED <<inputVars, libVars, flagDryRun, cfgDryRun, nCancel, atCancel,
                   userCancel, progVars, optSkipExisting, optDryRun, wconv,
                   mainPc, subPc, subIdx, poolVars, cancelled, workerVars,
                   sliceVars, drainVars, ret, crashed, histVars>>

\* CmdBatch with a fault: a single input goes through ConvertBatch as well
CmdBatch_Always ==
    /\ cmdPc = "convert"
    /\ nInputs >= 1
    /\ ConvertBatchStart

\* runMP4Convert, len(inputs) > 1: the call of mp4Conv.ConvertBatch
CmdBatch ==
    /\ cmdPc = "convert"
    /\ nInputs >= 2
    /\ ConvertBatchStart

\* CmdBatchReturn with a fault: the error of ConvertBatch is dropped
CmdBatchReturn_Swallow ==
    /\ cmdPc = "convert"
    /\ mainPc = "returned"
    /\ cmdErr' = "nil"
    /\ cmdPc' = "exited"
    /\ UNCHANGED <<inputVars, libVars, flagDryRun, cfgDryRun, nCancel, atCancel,
                   userCancel, progVars, fileVars, wconv, jkind, mainPc,
                   subPc, subIdx, poolVars, cancelled, workerVars, sliceVars,
                   drainVars, ret, crashed, histVars>>

\* ConvertBatch has returned: runMP4Convert returns its error, or nil
CmdBatchReturn ==
    /\ cmdPc = "convert"
    /\ mainPc = "returned"
    /\ cmdErr' = ret.err
    /\ cmdPc' = "exited"
    /\ UNCHANGED <<inputVars, libVars, flagDryRun, cfgDryRun, nCancel, atCancel,
                   userCancel, progVars, fileVars, wconv, jkind, mainPc,
                   subPc, subIdx, poolVars, cancelled, workerVars, sliceVars,
                   drainVars, ret, crashed, histVars>>

\* cmd.Execute: a non-nil error of the command is printed and the process
\* exits with status 1; otherwise main returns and the status is 0
ExitCode == IF cmdErr = "nil" THEN 0 ELSE 1

\* ================================================== determineOutputPath
\* the sequences over S of at most n elements
SeqsUpTo(S, n) == UNION {[1..k -> S] : k \in 0..n}

\* directories of input files; file names made of text and dots, other than
\* the names made of dots only; the output directories given with -o
Dirs == SeqsUpTo({"d", "e"}, MaxDepth)
FileNames == {f \in SeqsUpTo({"v", ".", "mov"}, MaxName) :
                 \E i \in 1..Len(f) : f[i] # "."}
InputPaths == [dir : Dirs, file : FileNames]
OutputDirs == {<<>>, <<"o">>, <<"o", "d">>}

\* filepath.Base, filepath.Dir and filepath.Join on such paths
Base(p) == p.file
Dir(p) == p.dir
Join(dir, name) == [dir |-> dir, file |-> name]

\* filepath.Ext: the suffix of the last element that begins at its final
\* dot, empty if it has no dot
Ext(p) ==
    LET f == p.file
        dots == {i \in 1..Len(f) : f[i] = "."}
    IN IF dots = {} THEN <<>>
       ELSE SubSeq(f, CHOOSE i \in dots : \A k \in dots : k <= i, Len(f))

\* strings.TrimSuffix
TrimSuffix(t, suffix) ==
    IF /\ Len(suffix) <= Len(t)
       /\ SubSeq(t, Len(t) - Len(suffix) + 1, Len(t)) = suffix
    THEN SubSeq(t, 1, Len(t) - Len(suffix))
    ELSE t

\* MP4Converter.OutputExtension
OutputExtension == <<".", "mp4">>

\* determineOutputPath with a fault: preserve mode keeps the directories of
\* the input under the output directory
determineOutputPath_Preserve(input, outputDir, flat) ==
    LET baseName == TrimSuffix(Base(input), Ext(input))
        outputName == baseName \o OutputExtension
    IN IF outputDir # <<>>
       THEN IF flat
            THEN Join(outputDir, outputName)
            ELSE Join(outputDir \o Dir(input), outputName)
       ELSE Join(Dir(input), outputName)

\* MP4Converter.determineOutputPath
determineOutputPath(input, outputDir, flat) ==
    LET baseName == TrimSuffix(Base(input), Ext(input))
        outputName == baseName \o OutputExtension
    IN IF outputDir # <<>>
       THEN IF flat
            THEN Join(outputDir, outputName)
            ELSE Join(outputDir, outputName)
       ELSE Join(Dir(input), outputName)

\* determineOutputPath is called for an input, and for the file of the same
\* name in another directory, with the same options
PathCall ==
    /\ libPc = "path"
    /\ path' = [path EXCEPT
                  !.out = determineOutputPath(path.input, path.outputDir, path.flat),
                  !.out2 = determineOutputPath(
                               [dir |-> path.otherDir, file |-> path.input.file],
                               path.outputDir, path.flat)]
    /\ libPc' = "pathDone"
    /\ UNCHANGED <<inputVars, regVars, ff, cmdVars, nCancel, atCancel, userCancel,
                   progVars, fileVars, wconv, jkind, mainPc, subPc, subIdx,
                   poolVars, cancelled, workerVars, sliceVars, drainVars, ret,
                   crashed, histVars>>

\* ============================================== the converter registry
\* what the calls on the registry leave alone
regFrame == <<inputVars, libPc, path, ff, cmdVars, nCancel, atCancel, userCancel,
              progVars, fileVars, wconv, jkind, mainPc, subPc, subIdx,
              poolVars, cancelled, workerVars, sliceVars, drainVars, ret,
              crashed, histVars>>

\* the place of a character in byte order
Rank(c) == CHOOSE i \in 1..Len(Alphabet) : Alphabet[i] = c

\* s < t on strings, as sort.Strings compares them
RECURSIVE StrLess(_, _)
StrLess(s, t) ==
    IF t = <<>> THEN FALSE
    ELSE IF s = <<>> THEN TRUE
    ELSE IF Head(s) # Head(t) THEN Rank(Head(s)) < Rank(Head(t))
    ELSE StrLess(Tail(s), Tail(t))

\* x put at its place in the sorted list names
RECURSIVE Insert(_, _)
Insert(x, names) ==
    IF names = <<>> THEN <<x>>
    ELSE IF StrLess(Head(names), x) THEN <<Head(names)>> \o Insert(x, Tail(names))
    ELSE <<x>> \o names

\* sort.Strings(names)
RECURSIVE SortStrings(_)
SortStrings(names) ==
    IF names = <<>> THEN <<>>
    ELSE Insert(Head(names), SortStrings(Tail(names)))

\* the orders in which `for name := range r.converters` may visit the keys
RangeOrders(m) ==
    {order \in [1..Cardinality(DOMAIN m) -> DOMAIN m] :
        \A i, k \in DOMAIN order : i # k => order[i] # order[k]}

\* the history of a call of Register(conv)
Registered(conv) ==
    /\ firstReg' = IF conv.name # <<>> /\ firstReg[conv.name] = "none"
                   THEN [firstReg EXCEPT ![conv.name] = conv.impl]
                   ELSE firstReg
    /\ nCalls' = nCalls + 1

\* Register with a fault: a name already registered is registered again
Register_Overwrite(conv) ==
    /\ libPc = "registry"
    /\ nCalls < MaxCalls
    /\ LET name == conv.name IN
       IF name = <<>>
       THEN /\ regOut' = [NoRegOut EXCEPT !.op = "Register", !.name = name,
                                          !.conv = conv.impl, !.err = "empty"]
            /\ UNCHANGED converters
       ELSE /\ converters' = [n \in DOMAIN converters \cup {name} |->
                                 IF n = name THEN conv ELSE converters[n]]
            /\ regOut' = [NoRegOut EXCEPT !.op = "Register", !.name = name,
                                          !.conv = conv.impl]
    /\ Registered(conv)
    /\ UNCHANGED regFrame

\* Registry.Register, under r.mu.Lock()
Register(conv) ==
    /\ libPc = "registry"
    /\ nCalls < MaxCalls
    /\ LET name == conv.name IN
       IF name = <<>>
       THEN /\ regOut' = [NoRegOut EXCEPT !.op = "Register", !.name = name,
                                          !.conv = conv.impl, !.err = "empty"]
            /\ UNCHANGED converters
       ELSE IF name \in DOMAIN converters
       THEN /\ regOut' = [NoRegOut EXCEPT !.op = "Register", !.name = name,
                                          !.conv = conv.impl, !.err = "exists"]
            /\ UNCHANGED converters
       ELSE /\ converters' = [n \in DOMAIN converters \cup {name} |->
                                 IF n = name THEN conv ELSE converters[n]]
            /\ regOut' = [NoRegOut EXCEPT !.op = "Register", !.name = name,
                                          !.conv = conv.impl]
    /\ Registered(conv)
    /\ UNCHANGED regFrame

\* Registry.Get, under r.mu.RLock()
Get(name) ==
    /\ libPc = "registry"
    /\ nCalls < MaxCalls
    /\ regOut' = IF name \notin DOMAIN converters
                 THEN [NoRegOut EXCEPT !.op = "Get", !.name = name,
                                       !.err = "not found"]
                 ELSE [NoRegOut EXCEPT !.op = "Get", !.name = name,
                                       !.conv = converters[name].impl]
    /\ nCalls' = nCalls + 1
    /\ UNCHANGED <<regFrame, converters, firstReg>>

\* Registry.List, under r.mu.RLock(): the keys in the order the range visits
\* them, then sorted
List ==
    /\ libPc = "registry"
    /\ nCalls < MaxCalls
    /\ \E order \in RangeOrders(converters) :
          regOut' = [NoRegOut EXCEPT !.op = "List", !.names = SortStrings(order)]
    /\ nCalls' = nCalls + 1
    /\ UNCHANGED <<regFrame, converters, firstReg>>

\* ===================================================== FFmpeg.buildArgs
\* strings.Contains(codec, "videotoolbox") on the codecs explored
ContainsVideotoolbox(codec) ==
    codec \in {"h264_videotoolbox", "hevc_videotoolbox"}

\* FFmpeg.buildArgs
buildArgs(input, output, opts) ==
    LET hw == IF opts.HWAccel # ""
              THEN <<"-hwaccel", opts.HWAccel>> \o
                   (IF opts.HWAccelDevice # ""
                    THEN <<"-hwaccel_device", opts.HWAccelDevice>> ELSE <<>>)
              ELSE <<>>
        codec == IF opts.VideoCodec # ""
                 THEN IF opts.HWAccel = "videotoolbox"
                      THEN IF opts.VideoCodec = "h264" THEN "h264_videotoolbox"
                           ELSE IF opts.VideoCodec \in {"h265", "hevc"}
                           THEN "hevc_videotoolbox"
                           ELSE opts.VideoCodec
                      ELSE opts.VideoCodec
                 ELSE "libx264"
        quality == IF opts.CRF > 0
                   THEN IF ~ContainsVideotoolbox(opts.VideoCodec)
                        THEN <<"-crf", ToString(opts.CRF)>>
                        ELSE <<"-q:v", ToString(opts.CRF)>>
                   ELSE <<>>
        preset == IF opts.Preset # "" /\ ~ContainsVideotoolbox(opts.VideoCodec)
                  THEN <<"-preset", opts.Preset>> ELSE <<>>
        bitrate == IF opts.Bitrate # "" THEN <<"-b:v", opts.Bitrate>> ELSE <<>>
        acodec == <<"-c:a", IF opts.AudioCodec # "" THEN opts.AudioCodec ELSE "aac">>
        abitrate == IF opts.AudioBitrate # ""
                    THEN <<"-b:a", opts.AudioBitrate>> ELSE <<>>
    IN  <<"-y">> \o hw \o <<"-i", input>> \o <<"-c:v", codec>> \o quality \o
        preset \o bitrate \o acodec \o abitrate \o opts.ExtraArgs \o <<output>>

\* buildArgs is called, as FFmpeg.Convert calls it
ArgsCall ==
    /\ libPc = "args"
    /\ ff' = [ff EXCEPT !.args = buildArgs(ff.input, ff.output, ff.opts)]
    /\ libPc' = "argsDone"
    /\ UNCHANGED <<inputVars, path, regVars, cmdVars, nCancel, atCancel, userCancel,
                   progVars, fileVars, wconv, jkind, mainPc, subPc, subIdx,
                   poolVars, cancelled, workerVars, sliceVars, drainVars, ret,
                   crashed, histVars>>

\* ======================================================== specifications
\* the steps of the goroutines of a started batch, but for c.Convert
RunNext ==
    \/ \E w \in WorkerIds : Handoff(w)
    \/ \E w \in WorkerIds : WorkerExit(w)
    \/ \E w \in WorkerIds : WorkerSelect(w)
    \/ \E w \in WorkerIds : JobAppend(w)
    \/ \E w \in WorkerIds : JobIncrement(w)
    \/ \E w \in WorkerIds : Send(w)
    \/ StopCloseJobs
    \/ StopWait
    \/ StopCloseResults
    \/ DrainEnd
    \/ Stats

\* ConvertBatch from its call on, but for c.Convert
PoolNext == ConvertBatchEmpty \/ ConvertBatchStart \/ RunNext

\* ConvertBatch with c.Convert taken as a whole
BatchNext == PoolNext \/ \E w \in WorkerIds : JobConvert(w)

\* ConvertBatch with c.Convert taken statement by statement
FilesNext ==
    \/ PoolNext
    \/ \E w \in WorkerIds : ConvValidate(w)
    \/ \E w \in WorkerIds : ConvInitFFmpeg(w)
    \/ \E w \in WorkerIds : ConvPrepare(w)
    \/ \E w \in WorkerIds : ConvEncode(w)

\* the batch with a holder of the pool that may call Cancel
Next == BatchNext \/ Cancel

\* the batch with job functions that may panic
PanicNext == BatchNext \/ \E w \in WorkerIds : JobPanic(w)

\* the pool driven by ConvertBatch, Cancel possible at any time
Spec == Init /\ [][Next]_vars

\* ConvertBatch as the program runs it: nothing calls Cancel
SpecBatch == Init /\ [][BatchNext]_vars

SpecPanic == Init /\ [][PanicNext]_vars

\* The Go scheduler runs every runnable goroutine eventually: a step of the
\* program that stays possible is taken. Cancel is the environment's and
\* carries no fairness.
FairSpecBatch == Init /\ [][BatchNext]_vars /\ WF_vars(BatchNext)

FairSpec == Init /\ [][Next]_vars /\ WF_vars(BatchNext)

\* ConvertBatch over files in any condition, with any of the options
\* skip-existing and dry-run, and with the encoder handle present or not yet
InitFiles ==
    /\ InitBatch
    /\ NoCmd
    /\ NoLib
    /\ nInputs <= MaxFiles
    /\ optSkipExisting \in BOOLEAN
    /\ optDryRun \in BOOLEAN
    /\ ffmpeg \in {"nil", "set"}

SpecFiles == InitFiles /\ [][FilesNext]_vars

\* the mp4 command: sb mp4 [-n] [-s] files...
CmdNext ==
    \/ CmdSetup
    \/ CmdSingle
    \/ CmdBatch
    \/ RunNext
    \/ \E w \in WorkerIds : ConvValidate(w)
    \/ \E w \in WorkerIds : ConvInitFFmpeg(w)
    \/ \E w \in WorkerIds : ConvPrepare(w)
    \/ \E w \in WorkerIds : ConvEncode(w)
    \/ CmdBatchReturn

\* a fresh process: the converter's encoder handle is not yet created, the
\* options are built by the command
InitCmd ==
    /\ InitBatch
    /\ NoLib
    /\ nInputs <= MaxFiles
    /\ cmdPc = "start"
    /\ cmdErr = "none"
    /\ flagDryRun \in BOOLEAN
    /\ cfgDryRun \in BOOLEAN
    /\ optSkipExisting \in BOOLEAN
    /\ optDryRun = FALSE
    /\ ffmpeg = "nil"

SpecCmd == InitCmd /\ [][CmdNext]_vars

\* no batch and no command is run
InitIdle ==
    /\ InitBatch
    /\ NoCmd
    /\ nInputs = 0
    /\ optWorkers = 0
    /\ optSkipExisting = FALSE
    /\ optDryRun = FALSE
    /\ ffmpeg = "nil"

\* determineOutputPath on its own, over all inputs and options
InitPath ==
    /\ InitIdle
    /\ libPc = "path"
    /\ path \in [input : InputPaths, otherDir : Dirs, outputDir : OutputDirs,
                 flat : BOOLEAN, out : {NoPath}, out2 : {NoPath}]
    /\ NoRegistry
    /\ ff = NoArgsCall

PathNext == PathCall

SpecPath == InitPath /\ [][PathNext]_vars

\* the registry alone: any calls of Register, Get and List
InitRegistry ==
    /\ InitIdle
    /\ libPc = "registry"
    /\ path = NoPathCall
    /\ NoRegistry
    /\ ff = NoArgsCall

RegistryNext ==
    \/ \E conv \in Converters : Register(conv)
    \/ \E name \in RegNames : Get(name)
    \/ List

SpecRegistry == InitRegistry /\ [][RegistryNext]_vars

\* buildArgs alone, on every set of options explored
InitArgs ==
    /\ InitIdle
    /\ libPc = "args"
    /\ path = NoPathCall
    /\ NoRegistry
    /\ ff \in [input : {"in.mov"}, output : {"out.mp4"}, args : {<<>>},
                opts : FFmpegOptions]

ArgsNext == ArgsCall

SpecArgs == InitArgs /\ [][ArgsNext]_vars

\* ConvertBatch with a user who may ask for cancellation
UserNext == BatchNext \/ UserCancel

FairSpecUser == Init /\ [][UserNext]_vars /\ WF_vars(BatchNext)

\* the pool used as the ADR's usage pattern shows, by one thread
UsageNext ==
    \/ UsageStart
    \/ \E w \in WorkerIds : Handoff(w)
    \/ \E w \in WorkerIds : WorkerExit(w)
    \/ \E w \in WorkerIds : WorkerSelect(w)
    \/ \E w \in WorkerIds : UsageJob(w)
    \/ StopCloseJobs
    \/ StopWait
    \/ StopCloseResults
    \/ UsageRange

\* every goroutine that can take a step eventually takes one
FairSpecUsage == Init /\ [][UsageNext]_vars /\ WF_vars(UsageNext)


\* ============================================================ properties
\* workers alive and holding job j
HeldBy(j) == {w \in WorkerIds : wjob[w] = j /\ wpc[w] \notin {"none", "exited"}}

\* jobs whose function is running (Convert, append, up to its return)
Executing == {j \in JobIds : jstat[j] = "running"}

\* jobs whose function has begun
Started == {j \in JobIds : jstat[j] = "running" \/ jobErr[j] # "none"}

\* jobs whose function has returned and whose outcome the consumer has taken
Consumed == {j \in JobIds : jstat[j] = "reported" /\ jobErr[j] # "none"}

\* jobs a worker has taken from the intake queue
Dequeued == {j \in JobIds : jstat[j] # "new"}

WorkersGone == \A w \in WorkerIds : wpc[w] \in {"none", "exited"}

\* C1: when ConvertBatch returns for N >= 1 inputs, the Result list has N
\* entries and success + failed + skipped = N.
C1_Conservation ==
    (ret.done /\ nInputs >= 1) =>
        /\ ret.len = nInputs
        /\ ret.success + ret.failed + ret.skipped = nInputs

\* C2: no two execution units are inside an append to the Result collection
\* at the same time, and no completed append is lost or overwritten.
C2_SerialAppend ==
    /\ Cardinality({w \in WorkerIds : wpc[w] = "append"}) <= 1
    /\ \A j \in JobIds :
          jstat[j] \in {"returned", "reported"} /\ jobErr[j] # "none" =>
              \E i \in 1..resultsLen : results[i].Input = j

\* C3: every dequeued job puts exactly one value on the results stream (its
\* returned error, or the cancellation error, which it is when the pool was
\* cancelled at dequeue time), and no value is sent for a job never dequeued.
C3_OneValuePerJob ==
    /\ \A j \in JobIds :
          /\ emitted[j] <= 1
          /\ j \notin Dequeued => emitted[j] = 0
          /\ (j \in Dequeued /\ HeldBy(j) = {}) => emitted[j] = 1
          /\ emitted[j] = 1 =>
                sentVal[j] = (IF jobErr[j] # "none" THEN jobErr[j] ELSE "ctxErr")
          /\ (emitted[j] = 1 /\ j \in deqCancelled) => sentVal[j] = "ctxErr"
    /\ nReceived = Cardinality({j \in JobIds : emitted[j] = 1})

C3_Witness ==
    \E j1, j2 \in JobIds :
        /\ emitted[j1] = 1 /\ sentVal[j1] = "ctxErr"
        /\ emitted[j2] = 1 /\ sentVal[j2] \in {"nil", "err"}

\* C4: Stop closes the intake queue first, returns from its wait only when
\* every worker has exited, and closes the results stream last; the consumer
\* sees end-of-stream only when every emitted value has been delivered.
C4_StopOrder ==
    /\ subPc \in {"stopWait", "stopCloseResults", "done"} => jobsClosed
    /\ subPc \in {"stopCloseResults", "done"} => WorkersGone
    /\ resultsClosed => (jobsClosed /\ WorkersGone)
    /\ (mainPc \in {"stats", "returned"} /\ nInputs >= 1) =>
          /\ resultsClosed
          /\ \A w \in WorkerIds : wpc[w] \notin {"send", "sendCancel"}
          /\ nReceived = Cardinality(Dequeued)

C4_Witness == mainPc = "stats" /\ nReceived >= 2 /\ cancelled

\* C5: at most W jobs are executing at any instant, and at most W jobs have
\* started without their outcome having been consumed: with W running, one
\* more starts only after one was released and its outcome taken.
C5_Backpressure ==
    /\ Cardinality(Executing) <= workers
    /\ Cardinality(Started \ Consumed) <= workers

C5_Witness ==
    /\ workers >= 1
    /\ Cardinality(Executing) = workers
    /\ Cardinality(Started) > workers

\* C6: once a worker has observed the cancellation signal, no job function
\* begins executing; jobs already started go on.
C6_NoStartAfterObserved ==
    [][observed # {} =>
          /\ \A j \in JobIds : jstat'[j] = "running" => jstat[j] = "running"
          /\ \A w \in observed : wpc'[w] \in {"sendCancel", "exited"}]_vars

C6_Witness ==
    /\ observed # {}
    /\ \E j \in JobIds : jstat[j] = "running"
    /\ Cardinality(Started) < nInputs

\* C7: without Cancel and with terminating job bodies, ConvertBatch with
\* N >= 1 inputs eventually returns: all N Submits and Stop are done and the
\* results stream is closed.
C7_BatchReturns ==
    (nInputs >= 1) ~>
        (mainPc = "returned" /\ subPc = "done" /\ subIdx = nInputs + 1
            /\ resultsClosed)

C7_Witness == mainPc = "returned" /\ workers >= 1 /\ nInputs > workers

\* C8: once Cancel is raised during a batch, the batch stops: every Submit
\* and Stop return, the results stream is closed and the caller's drain ends.
C8_CancelStops ==
    cancelled ~> (mainPc = "returned" /\ subPc = "done" /\ resultsClosed)

\* C9: absent cancellation a failing job stops nothing: no worker leaves
\* while the intake queue is open, and when the batch returns every one of
\* the N jobs has run and has had its own outcome reported.
C9_FailuresDoNotStop ==
    /\ ~jobsClosed => \A w \in WorkerIds : wpc[w] # "exited"
    /\ (ret.done /\ nInputs >= 1) =>
          /\ \A j \in 1..nInputs :
                /\ jstat[j] = "reported"
                /\ jobErr[j] # "none"
                /\ sentVal[j] = jobErr[j]
          /\ nReceived = nInputs
          /\ nErrors = Cardinality({j \in 1..nInputs : jobErr[j] = "err"})

C9_Witness == ret.done /\ nInputs >= 2 /\ jobErr[1] = "err" /\ nErrors < nInputs

\* C10: a panic inside one job's function is reported as that job's error
\* and does not take the process, and with it the sibling workers, down.
C10_PanicContained ==
    \A j \in JobIds : jstat[j] = "panicked" =>
        /\ ~crashed
        /\ \E w \in HeldBy(j) : wval[w] = "err"


\* worker goroutines that have been spawned and have not returned
Live == {w \in WorkerIds : wpc[w] \notin {"none", "exited"}}

\* C11 as stated: from the return of Start to the completion of Stop, also
\* after Cancel, the number of live workers equals the configured count.
C11_LiveWorkers ==
    (workers >= 1 /\ subPc # "done") => Cardinality(Live) = workers

\* C11, amended: from the return of Start until Stop closes the intake
\* queue, and as long as no worker has observed a raised Cancel, the number
\* of live workers (and the completion counter) equals the configured count.
C11_LiveUntilDrain ==
    (workers >= 1 /\ ~jobsClosed /\ observed = {}) =>
        /\ Cardinality(Live) = workers
        /\ wg = workers

C11_Witness ==
    /\ workers >= 2
    /\ cancelled
    /\ ~jobsClosed
    /\ observed = {}
    /\ nReceived >= 1

\* C12: ConvertBatch returns a non-nil aggregate error exactly when a
\* returned Result is failed, the error's count is the number of failed
\* Results, and the full Result list is returned either way.
C12_AggregateError ==
    (ret.done /\ nInputs >= 1) =>
        /\ (ret.err # "nil") <=> (ret.failed > 0)
        /\ ret.err # "nil" => ret.errCount = ret.failed
        /\ ret.len = nInputs

\* C13: with an empty input list ConvertBatch returns a non-nil error and
\* builds no pool: no worker is spawned, no job is created or submitted.
C13_EmptyRejected ==
    nInputs = 0 =>
        /\ workers = 0 /\ wg = 0
        /\ Live = {}
        /\ subPc = "none"
        /\ Dequeued = {}
        /\ mainPc \in {"entry", "returned"}
        /\ mainPc = "returned" => (ret.done /\ ret.err # "nil" /\ ret.len = 0)

C13_Witness == nInputs = 0 /\ mainPc = "returned"


\* C17: in a batch, advance is called exactly once for every value drained
\* from the results stream, and finish exactly once, after the stream has
\* been drained to its end.
C17_ProgressCalls ==
    /\ \A j \in JobIds :
          /\ advanced[j] <= 1
          /\ emitted[j] = 1 => advanced[j] = 1
    /\ finCalls <= 1
    /\ finCalls = 1 =>
          /\ resultsClosed
          /\ mainPc \in {"stats", "returned"}
          /\ \A w \in WorkerIds : wpc[w] \notin {"send", "sendCancel"}
          /\ Cardinality({j \in JobIds : advanced[j] = 1}) = nReceived
    /\ (ret.done /\ nInputs >= 1) => finCalls = 1

C17_Witness == finCalls = 1 /\ nReceived >= 2 /\ workers >= 2

\* C18: advance is invoked only by the one execution unit that drains the
\* results stream (never by a worker), so no two advance calls are in
\* progress at the same time.
C18_SingleAdvanceCaller ==
    /\ \A w \in WorkerIds : wpc[w] # "increment"
    /\ Cardinality({w \in WorkerIds : wpc[w] = "increment"}) <= 1

\* C20: the final success, failed and skipped counts are those of the
\* outcomes assigned to the files, whatever the order of the inputs and the
\* interleaving of the workers.
C20_OrderIndependent ==
    (ret.done /\ nInputs >= 1) =>
        /\ ret.success = Cardinality({j \in 1..nInputs : jkind[j] = "success"})
        /\ ret.failed = Cardinality({j \in 1..nInputs : jkind[j] = "failed"})
        /\ ret.skipped = Cardinality({j \in 1..nInputs : jkind[j] = "skipped"})

\* the positions of a worker whose call of c.Convert has returned
ConvReturned(w) == wpc[w] \in {"append", "increment", "send"}

\* C14: an input that fails validation yields a failed Result for that file
\* only, neither the encoder nor MkdirAll is reached for it, and the batch
\* is not aborted: no worker leaves while the intake is open, and at the
\* return every input has been processed to its own Result and reported.
C14_InvalidFailsAlone ==
    /\ \A w \in WorkerIds :
          wconv[w].invalid =>
              /\ ConvReturned(w)
              /\ wres[w] = MkResult(wjob[w], "failed")
              /\ ~wconv[w].encoder
              /\ ~wconv[w].mkdir
    /\ \A j \in jinvalid : jkind[j] = "failed"
    /\ (nInputs >= 1 /\ jinvalid = 1..nInputs) => ~encoderRan /\ ~fsTouched
    /\ ~cancelled
    /\ \A w \in WorkerIds : wpc[w] = "exited" => jobsClosed
    /\ (ret.done /\ nInputs >= 1) =>
          \A j \in 1..nInputs :
              /\ jkind[j] # "none"
              /\ emitted[j] = 1
              /\ jstat[j] = "reported"

C14_Witness ==
    /\ ret.done
    /\ nInputs = 2
    /\ jinvalid = {1}
    /\ jkind[2] = "success"
    /\ encoderRan

\* C15: whenever skip-existing is enabled and the output path of a file
\* (one that passed validation) already exists, the encoder is not invoked
\* for the file and its Result is marked skipped with a non-empty reason.
C15_SkipExisting ==
    \A w \in WorkerIds :
        (/\ optSkipExisting
         /\ ConvReturned(w)
         /\ wconv[w].outExists
         /\ ~wconv[w].invalid) =>
            /\ ~wconv[w].encoder
            /\ wres[w].Skipped
            /\ wres[w].SkipReason # ""

\* C16: with dry-run enabled nothing is created or modified, the encoder is
\* never invoked, and every input that passes validation (and is not
\* skipped for its existing output) gets a Result with success = true.
C16_DryRun ==
    optDryRun =>
        /\ ~fsTouched
        /\ ~encoderRan
        /\ \A w \in WorkerIds :
              (/\ ConvReturned(w)
               /\ ~wconv[w].invalid
               /\ ~(optSkipExisting /\ wconv[w].outExists)) =>
                  wres[w].Success

\* the variables, other than the pool's channels and WaitGroup, that the
\* next statement of the job worker w runs reads and then writes: c.ffmpeg
\* in the lazy initialisation, the results slice in the append
Touches(w) ==
    IF wpc[w] = "ffinit" THEN {"c.ffmpeg"}
    ELSE IF wpc[w] = "append" THEN {"results"}
    ELSE {}

\* C19: no two concurrently running jobs access the same mutable variable.
C19_NoSharedState ==
    \A w1, w2 \in WorkerIds :
        w1 # w2 => Touches(w1) \cap Touches(w2) = {}

\* C21: every Result of the returned list records the input of the job that
\* produced it, and the recorded inputs are the submitted inputs, each once,
\* whatever the order in which the jobs complete.
C21_InputsRecorded ==
    (ret.done /\ nInputs >= 1) =>
        /\ \A i \in 1..resultsLen : results[i].Input \in 1..nInputs
        /\ \A j \in 1..nInputs :
              Cardinality({i \in 1..resultsLen : results[i].Input = j}) = 1

\* the state of the program: every variable but the count of Cancel calls
progState == <<cancelFrame, cancelled, crashed>>

\* C22: Cancel is idempotent: a call made when the signal is already raised
\* changes nothing at all, so the state after two or more calls is the state
\* after one (and the behaviours that follow are the same); the first call
\* raises the signal.
C22_CancelIdempotent ==
    [][nCancel' = nCancel + 1 =>
          /\ cancelled'
          /\ cancelled => UNCHANGED progState]_vars

C22_Witness ==
    /\ nCancel >= 2
    /\ cancelled
    /\ ~crashed
    /\ mainPc = "drain"
    /\ \E w \in WorkerIds : wpc[w] = "convert"

\* C23: Cancel changes only the cancellation signal: the lifecycle, the
\* intake queue, the results stream and the executing jobs are as before.
\* A job that is executing (whether or not Cancel has been called) is left
\* only by its own return, and it goes on to have the value it returned
\* emitted as its single outcome.
C23_CancelFrame ==
    /\ [][nCancel' = nCancel + 1 => UNCHANGED <<cancelFrame, crashed>>]_vars
    /\ [][\A w \in WorkerIds :
             wpc[w] = "convert" =>
                 /\ wjob'[w] = wjob[w]
                 /\ wpc'[w] \in {"convert", "append"}]_vars
    /\ [](\A j \in JobIds :
             /\ emitted[j] <= 1
             /\ (jstat[j] = "reported" /\ jobErr[j] # "none") =>
                    sentVal[j] = jobErr[j])
    /\ \A j \in JobIds :
          (j \in atCancel) ~>
              (/\ jstat[j] = "reported"
               /\ emitted[j] = 1
               /\ jobErr[j] # "none"
               /\ sentVal[j] = jobErr[j])

C23_Witness ==
    /\ cancelled
    /\ \E j \in atCancel :
          /\ jstat[j] = "reported"
          /\ emitted[j] = 1
          /\ sentVal[j] = jobErr[j]
          /\ \E k \in JobIds : sentVal[k] = "ctxErr"

\* C24: in ConvertBatch, Stop is called once, and only after all N Submit
\* calls have returned: the intake is never closed while a Submit is pending
\* or still to come, and Stop is entered only from the end of the submitting
\* loop and has completed when ConvertBatch returns.
C24_StopAfterSubmits ==
    /\ [](/\ subPc = "submit" => ~jobsClosed /\ subIdx <= nInputs
          /\ subPc \in {"stopClose", "stopWait", "stopCloseResults", "done"} =>
                subIdx = nInputs + 1
          /\ jobsClosed =>
                /\ subIdx = nInputs + 1
                /\ subPc \in {"stopWait", "stopCloseResults", "done"}
                /\ Cardinality(Dequeued) = nInputs
          /\ (ret.done /\ nInputs >= 1) => subPc = "done" /\ jobsClosed)
    /\ [][/\ (subPc' = "stopClose" /\ subPc # "stopClose") =>
                subPc = "submit" /\ subIdx' = nInputs + 1
          /\ jobsClosed' # jobsClosed =>
                ~jobsClosed /\ subPc = "stopClose" /\ subPc' = "stopWait"
          /\ subPc = "done" => subPc' = "done"]_vars

C24_Witness ==
    /\ jobsClosed
    /\ nInputs >= 2
    /\ workers >= 2
    /\ mainPc = "drain"
    /\ \E w \in WorkerIds : wpc[w] = "convert"

\* C25: used as the ADR's usage pattern shows (Start, every Submit, Stop,
\* then the range over Results, all by one thread) with N >= 1 jobs, the
\* pool runs all jobs and the caller collects one result per job and
\* terminates.
C25_UsagePatternTerminates ==
    (mainPc = "usage" /\ nInputs >= 1) ~>
        (mainPc = "returned" /\ nReceived = nInputs)

\* C26: each submitted job is claimed by exactly one worker and its function
\* is executed at most once: a worker only ever receives a job that no
\* worker has received before, a function only begins for a job that has
\* not begun before, at most one worker holds a job, and a job whose outcome
\* has been emitted is held by none.
C26_ClaimedOnce ==
    /\ [](\A j \in JobIds :
             /\ Cardinality(HeldBy(j)) <= 1
             /\ jstat[j] = "reported" => HeldBy(j) = {}
             /\ jstat[j] = "new" => HeldBy(j) = {}
             /\ (jstat[j] # "new" /\ j <= nInputs) => j < subIdx)
    /\ [][\A w \in WorkerIds :
             /\ (wjob'[w] # wjob[w] /\ wjob'[w] # 0) =>
                   /\ wjob[w] = 0
                   /\ jstat[wjob'[w]] = "new"
                   /\ \A v \in WorkerIds : wjob[v] # wjob'[w]
             /\ (wpc'[w] = "convert" /\ wpc[w] # "convert") =>
                   /\ jstat[wjob[w]] = "dequeued"
                   /\ jobErr[wjob[w]] = "none"
                   /\ jkind[wjob[w]] = "none"
                   /\ emitted[wjob[w]] = 0]_vars

C26_Witness ==
    /\ nInputs >= 3
    /\ \E w1, w2 \in WorkerIds :
          /\ w1 # w2
          /\ wpc[w1] = "convert"
          /\ wpc[w2] = "convert"
          /\ wjob[w1] # wjob[w2]
    /\ \E j \in JobIds : jstat[j] = "reported"

\* the Submit calls that have returned
SubmitsReturned == subIdx - 1

\* C27: a Submit call returns only when a worker has taken its job: the
\* number of Submit calls that have returned equals the number of jobs
\* workers have dequeued, the jobs dequeued are those of the returned calls,
\* and the one pending submission is a job no worker holds, with its single
\* caller blocked in Submit.
C27_SubmitIsHandoff ==
    /\ [](/\ Cardinality(Dequeued) = SubmitsReturned
          /\ Dequeued = 1..SubmitsReturned
          /\ subPc = "submit" =>
                /\ subIdx \in 1..nInputs
                /\ jstat[subIdx] = "new"
                /\ HeldBy(subIdx) = {})
    /\ [][subIdx' # subIdx =>
             /\ subIdx' = subIdx + 1
             /\ \E w \in WorkerIds :
                   /\ wpc[w] = "idle"
                   /\ wjob'[w] = subIdx
                   /\ wpc'[w] = "select"]_vars

C27_Witness ==
    /\ subPc = "submit"
    /\ SubmitsReturned >= 2
    /\ workers >= 2
    /\ \A w \in WorkerIds : wpc[w] # "idle"

\* C28: when the user signals cancellation during a batch run (by an
\* interrupt or by cancelling the context given in the options), the pool's
\* cancellation is raised, with the process alive for the workers to observe
\* it and exit gracefully.
C28_UserCancelReachesPool ==
    (userCancel # "none") ~> (cancelled /\ ~crashed)

\* the errors runMP4Convert returns before any conversion starts
SetupErrors == {"error reading inputs", "no input files found", "invalid options"}

\* the inputs whose conversion failed
FailedInputs == {j \in 1..nInputs : jkind[j] = "failed"}

\* C29: the mp4 command exits zero exactly when no conversion failed: with
\* every file successful or skipped the status is 0; with one or more
\* failed conversions it is 1, in the single-file and in the batch path;
\* with no input files it is 1 and no job has started.
C29_ExitCode ==
    cmdPc = "exited" =>
        /\ ExitCode = 0 =>
              /\ nInputs >= 1
              /\ \A j \in 1..nInputs : jkind[j] \in {"success", "skipped"}
        /\ FailedInputs # {} => ExitCode = 1
        /\ (ExitCode = 1 /\ FailedInputs = {}) => cmdErr \in SetupErrors
        /\ nInputs = 0 =>
              /\ ExitCode = 1
              /\ workers = 0
              /\ Dequeued = {}
              /\ \A j \in JobIds : jkind[j] = "none"

C29_Witness ==
    /\ cmdPc = "exited"
    /\ nInputs = 2
    /\ ExitCode = 1
    /\ jkind[1] = "success"
    /\ jkind[2] = "failed"

\* C30: invoking the mp4 command with -n / --dry-run runs the conversion
\* with Options.DryRun true, so no encoder is invoked and nothing is written.
C30_DryRunFlag ==
    (flagDryRun /\ cmdPc \in {"convert", "exited"} /\ cmdErr \notin SetupErrors) =>
        /\ optDryRun
        /\ ~encoderRan
        /\ ~fsTouched

\* C31: exactly one input bypasses pool construction: the per-file
\* conversion is made by the command's own thread in one call (its Result is
\* there when the command has left the call, and only then), no pool is
\* built and no worker spawned; two or more inputs are converted by the
\* workers of a pool.
C31_SingleBypassesPool ==
    /\ nInputs = 1 =>
          /\ workers = 0
          /\ wg = 0
          /\ Live = {}
          /\ subPc = "none"
          /\ mainPc = "entry"
          /\ Dequeued = {}
          /\ jkind[1] # "none" <=> (cmdPc = "exited" /\ cmdErr \notin SetupErrors)
    /\ nInputs >= 2 =>
          \A j \in JobIds : jkind[j] # "none" => (workers >= 1 /\ j \in Dequeued)

C31_Witness ==
    /\ nInputs = 1
    /\ cmdPc = "exited"
    /\ jkind[1] = "success"
    /\ encoderRan
    /\ workers = 0

\* a file name without its last dot and what follows it
Stem(f) ==
    IF \E i \in 1..Len(f) : f[i] = "."
    THEN SubSeq(f, 1, (CHOOSE i \in 1..Len(f) :
                          /\ f[i] = "."
                          /\ \A k \in (i + 1)..Len(f) : f[k] # ".") - 1)
    ELSE f

\* C32: the output path is the input's directory (empty output directory)
\* or the output directory (otherwise, in flat and in preserve mode alike),
\* followed by the input's base name with the new extension; so the file of
\* the same name in another directory gets the same output path whenever
\* an output directory is set.
C32_OutputPath ==
    libPc = "pathDone" =>
        /\ path.out.file = Stem(path.input.file) \o <<".", "mp4">>
        /\ path.out.dir = IF path.outputDir = <<>> THEN path.input.dir
                          ELSE path.outputDir
        /\ path.outputDir # <<>> => path.out2 = path.out
        /\ path.outputDir = <<>> => path.out2.dir = path.otherDir

C32_Witness ==
    /\ libPc = "pathDone"
    /\ ~path.flat
    /\ path.outputDir = <<"o">>
    /\ path.input = [dir |-> <<"d", "e">>, file |-> <<"v", ".", "mov">>]
    /\ path.otherDir = <<"e">>
    /\ path.out = [dir |-> <<"o">>, file |-> <<"v", ".", "mp4">>]
    /\ path.out2 = path.out

\* the jobs for which the cancellation error was emitted
CancelErrors == {j \in JobIds : sentVal[j] = "ctxErr"}

\* C33: a worker that dequeues a job while the pool is cancelled emits the
\* cancellation error as that job's outcome without running it, and then
\* terminates; so after Cancel each worker dequeues at most one further job
\* and at most W cancellation errors are ever emitted.
C33_CancelledDequeue ==
    /\ [](/\ \A j \in deqCancelled :
                /\ jstat[j] \in {"dequeued", "short", "reported"}
                /\ jobErr[j] = "none"
                /\ jkind[j] = "none"
                /\ jstat[j] = "reported" => sentVal[j] = "ctxErr"
          /\ Cardinality(deqCancelled) <= workers
          /\ Cardinality(CancelErrors) <= workers
          /\ Cardinality(CancelErrors) <= Cardinality(observed))
    /\ [][\A w \in WorkerIds :
             /\ (wpc[w] = "select" /\ cancelled) =>
                   wpc'[w] \in {"select", "sendCancel"}
             /\ wpc[w] = "sendCancel" =>
                   /\ wpc'[w] \in {"sendCancel", "exited"}
                   /\ wpc'[w] = "exited" => sentVal'[wjob[w]] = "ctxErr"
             /\ wpc[w] = "exited" => wpc'[w] = "exited"]_vars

C33_Witness ==
    /\ workers = 2
    /\ nInputs = 3
    /\ Cardinality(deqCancelled) = 2
    /\ Cardinality(CancelErrors) = 2
    /\ \A w \in 1..workers : wpc[w] = "exited"

\* the dequeued jobs whose outcome no consumer has received yet
Outstanding == {j \in Dequeued : jstat[j] # "reported"}

\* C34: a worker does not dequeue another job until the outcome of its
\* previous job has been received from the results stream; so the number of
\* jobs dequeued minus the number of outcomes received is at most W at every
\* instant, and while nothing has been received at most W jobs are dequeued.
C34_DequeueAfterReceipt ==
    /\ [](/\ \A j \in Outstanding : Cardinality(HeldBy(j)) = 1
          /\ Cardinality(Dequeued) - nReceived = Cardinality(Outstanding)
          /\ Cardinality(Dequeued) - nReceived <= workers
          /\ nReceived = 0 => Cardinality(Dequeued) <= workers)
    /\ [][\A w \in WorkerIds :
             (wjob'[w] # wjob[w] /\ wjob'[w] # 0) =>
                 /\ wjob[w] = 0
                 /\ \A j \in JobIds : w \in HeldBy(j) => jstat[j] = "reported"
                 /\ Cardinality(Outstanding) < workers]_vars

C34_Witness ==
    /\ workers = 2
    /\ Cardinality(Dequeued) = 3
    /\ nReceived = 1
    /\ Cardinality(Outstanding) = 2

\* C35: with Start, the Submit calls, any Cancel calls, the workers' steps and
\* one Stop after the last Submit has returned, no send is attempted on a
\* closed intake queue or a closed results stream, and neither channel is
\* closed twice.
C35_NoClosedChannelPanic ==
    /\ [](/\ subPc = "submit" => ~jobsClosed
          /\ Live # {} => ~resultsClosed
          /\ subPc = "stopClose" => ~jobsClosed
          /\ subPc = "stopCloseResults" => ~resultsClosed
          /\ resultsClosed => jobsClosed)
    /\ [][/\ jobsClosed => jobsClosed'
          /\ resultsClosed => resultsClosed'
          /\ jobsClosed' # jobsClosed => (subPc = "stopClose" /\ subPc' # "stopClose")
          /\ resultsClosed' # resultsClosed =>
                (subPc = "stopCloseResults" /\ subPc' = "done")
          /\ subPc = "done" => subPc' = "done"]_vars

C35_Witness ==
    /\ nInputs = 3
    /\ nCancel = 2
    /\ jobsClosed
    /\ resultsClosed
    /\ subPc = "done"
    /\ nReceived >= 2

\* C36: Stop does not return while a worker still holds an outcome that has
\* not been received: once Stop's wait is over, every outcome emitted by a
\* worker has been taken by the consumer.
C36_StopAfterDelivery ==
    /\ [](subPc \in {"stopCloseResults", "done"} =>
             /\ wg = 0
             /\ \A w \in WorkerIds : wpc[w] \notin {"send", "sendCancel"}
             /\ Outstanding = {}
             /\ \A j \in 1..nInputs : emitted[j] = 1
             /\ nReceived = nInputs)
    /\ [][(subPc \in {"stopCloseResults", "done"}) =>
             /\ nReceived' = nReceived
             /\ emitted' = emitted
             /\ sentVal' = sentVal
             /\ jstat' = jstat]_vars

C36_Witness ==
    /\ subPc = "stopCloseResults"
    /\ ~resultsClosed
    /\ nInputs = 3
    /\ workers = 2
    /\ nReceived = 3
    /\ ~cancelled

\* the three classes of a Result, read off its fields
IsSkipped(r) == r.Skipped /\ ~r.Success /\ ~r.Err /\ r.SkipReason # ""
IsSuccessful(r) == r.Success /\ ~r.Skipped /\ ~r.Err
IsFailed(r) == ~r.Success /\ ~r.Skipped /\ r.Err

ClassesOf(r) ==
    {k \in ResultKinds : \/ k = "skipped" /\ IsSkipped(r)
                         \/ k = "success" /\ IsSuccessful(r)
                         \/ k = "failed" /\ IsFailed(r)}

\* C37: every Result that Convert produces is in exactly one of the classes
\* skipped, successful and failed, and Convert returns a non-nil error exactly
\* when the Result is in the failed class.
C37_ResultClasses ==
    /\ \A w \in WorkerIds :
          ConvReturned(w) =>
             /\ ClassesOf(wres[w]) = {jkind[wjob[w]]}
             /\ wpc[w] = "send" => (wval[w] # "nil" <=> IsFailed(wres[w]))
    /\ \A i \in 1..resultsLen : Cardinality(ClassesOf(results[i])) = 1
    /\ \A j \in JobIds :
          jobErr[j] # "none" => (jobErr[j] = "err" <=> jkind[j] = "failed")

C37_Witness ==
    /\ resultsLen = 2
    /\ \E i, k \in 1..resultsLen : IsSkipped(results[i]) /\ IsSuccessful(results[k])
    /\ \E w \in WorkerIds :
          wpc[w] = "send" /\ IsSuccessful(wres[w]) /\ wval[w] = "nil"
    /\ \E j \in JobIds : jobErr[j] = "nil" /\ jkind[j] = "skipped"

\* C38: Convert applies its short-circuits in the order validation, encoder
\* lookup, skip-existing, dry-run: an input that fails validation is failed
\* whatever the flags are, a failed lookup comes next, then an existing
\* output with skip-existing gives a skipped Result even under dry-run, and
\* only then does dry-run give a successful one.
C38_ShortCircuitOrder ==
    \A w \in WorkerIds :
        ConvReturned(w) =>
            LET c == wconv[w]
                k == jkind[wjob[w]]
                skip == optSkipExisting /\ c.outExists
            IN  /\ c.invalid =>
                      (k = "failed" /\ ~c.lookupFailed /\ ~c.mkdir /\ ~c.encoder)
                /\ (~c.invalid /\ c.lookupFailed) =>
                      (k = "failed" /\ ~c.mkdir /\ ~c.encoder)
                /\ (~c.invalid /\ ~c.lookupFailed /\ skip) =>
                      (k = "skipped" /\ ~c.mkdir /\ ~c.encoder)
                /\ (~c.invalid /\ ~c.lookupFailed /\ ~skip /\ optDryRun) =>
                      (k = "success" /\ ~c.mkdir /\ ~c.encoder)
                /\ k = "skipped" => skip
                /\ (~c.invalid /\ ~c.lookupFailed /\ ~skip /\ ~optDryRun) => c.mkdir

C38_Witness ==
    /\ optSkipExisting
    /\ optDryRun
    /\ \E w1, w2 \in WorkerIds :
          /\ ConvReturned(w1) /\ ConvReturned(w2)
          /\ wconv[w1].outExists /\ jkind[wjob[w1]] = "skipped"
          /\ wconv[w2].invalid /\ wconv[w2].outExists /\ jkind[wjob[w2]] = "failed"

\* the names of a list are in strictly ascending order
Ascending(names) ==
    \A i \in 1..(Len(names) - 1) : StrLess(names[i], names[i + 1])

\* C39: after any sequence of Register, Get and List calls the registry maps
\* each name to the first converter registered under it: Register with an
\* empty or already-registered name returns an error and leaves the registry
\* unchanged, Get(name) succeeds exactly when name was successfully
\* registered, and List returns every registered name once, ascending.
C39_Registry ==
    /\ [](/\ DOMAIN converters = {n \in RegNames : n # <<>> /\ firstReg[n] # "none"}
          /\ \A n \in DOMAIN converters :
                converters[n] = [impl |-> firstReg[n], name |-> n]
          /\ regOut.op = "Get" =>
                /\ regOut.err = "nil" <=> regOut.name \in DOMAIN converters
                /\ regOut.conv = IF regOut.err = "nil"
                                 THEN firstReg[regOut.name] ELSE "nil"
          /\ regOut.op = "List" =>
                /\ Ascending(regOut.names)
                /\ {regOut.names[i] : i \in 1..Len(regOut.names)} = DOMAIN converters
                /\ Len(regOut.names) = Cardinality(DOMAIN converters))
    /\ [][/\ (nCalls' # nCalls /\ regOut'.op = "Register") =>
                /\ regOut'.err # "nil" <=>
                      (regOut'.name = <<>> \/ regOut'.name \in DOMAIN converters)
                /\ regOut'.err # "nil" => converters' = converters
                /\ regOut'.err = "nil" =>
                      /\ DOMAIN converters' = DOMAIN converters \cup {regOut'.name}
                      /\ converters'[regOut'.name].impl = regOut'.conv
                      /\ \A n \in DOMAIN converters : converters'[n] = converters[n]
          /\ (nCalls' # nCalls /\ regOut'.op \in {"Get", "List"}) =>
                converters' = converters]_vars

C39_Witness ==
    /\ nCalls = 3
    /\ regOut.op = "Register"
    /\ regOut.err = "exists"
    /\ regOut.name = <<"a">>
    /\ regOut.conv = "c2"
    /\ converters[<<"a">>].impl = "c1"
    /\ DOMAIN converters = {<<"a">>, <<"b", "a">>}

\* where the argument arg stands in the list args, 0 if nowhere
IndexOf(arg, args) ==
    IF \E i \in 1..Len(args) : args[i] = arg
    THEN CHOOSE i \in 1..Len(args) :
            args[i] = arg /\ \A k \in 1..(i - 1) : args[k] # arg
    ELSE 0

\* hardware-acceleration arguments precede -i and the output path is last
ArgsOrdered ==
    /\ \A i \in 1..Len(ff.args) :
          ff.args[i] \in {"-hwaccel", "-hwaccel_device"} => i < IndexOf("-i", ff.args)
    /\ ff.opts.HWAccel # "" <=> IndexOf("-hwaccel", ff.args) # 0
    /\ IndexOf("-i", ff.args) # 0
    /\ ff.args[Len(ff.args)] = ff.output

\* C40: whenever buildArgs maps the video codec to a VideoToolbox encoder
\* (hardware acceleration videotoolbox with codec h264, h265 or hevc), the
\* quality value is emitted as -q:v instead of -crf and no -preset argument
\* is emitted; for every option set, hardware-acceleration arguments precede
\* -i and the output path is the last argument.
C40_VideoToolboxArgs ==
    libPc = "argsDone" =>
        /\ (ff.opts.HWAccel = "videotoolbox" /\
            ff.opts.VideoCodec \in {"h264", "h265", "hevc"}) =>
               /\ IndexOf("-crf", ff.args) = 0
               /\ IndexOf("-preset", ff.args) = 0
               /\ ff.opts.CRF > 0 =>
                     /\ IndexOf("-q:v", ff.args) # 0
                     /\ ff.args[IndexOf("-q:v", ff.args) + 1] = ToString(ff.opts.CRF)
        /\ ArgsOrdered

====
